---- MODULE Spec2Model ----
(***************************************************************************)
(* DoxyVB6: a line-oriented VB6 declaration parser (conv_vb6.py) that      *)
(* builds a CodeElement tree (codeconv.py), and a C# generator             *)
(* (conv_csharp.py) that renders the tree.                                 *)
(*                                                                         *)
(* Text is modelled as TLA+ strings, character by character.  The regular  *)
(* expressions of conv_vb6.py are transcribed as syntax trees and matched  *)
(* by a backtracking matcher with Python's semantics (leftmost, greedy,    *)
(* alternatives in order), so that what a pattern accepts and what its     *)
(* groups capture is computed, not assumed.                                *)
(***************************************************************************)
EXTENDS Integers, Sequences, FiniteSets, TLC

VARIABLES
  module_type,     \* Vb6Parser.module_type
  code_lines,      \* the argument of parse
  pc,              \* where the program is
  ln_i,            \* index in code_lines of the physical line the loop reads next
  s,               \* the loop's logical line
  lineContinue,    \* the loop's continuation flag
  elems,           \* every CodeElement created so far; an Element is its index
  target_elem,     \* the scope pointer (0 is None)
  lastProperty,    \* the last property Element produced (0 is None)
  inTypeSearch, inSubSearch, inFunctionSearch, inEnumSearch, inPropertySearch,
  exc,             \* the exception that ended the call ("" when none)
  out,             \* the generator's code_lines
  call,            \* a direct call of one method: its name and arguments
  ret              \* what the direct call returned

vars == <<module_type, code_lines, pc, ln_i, s, lineContinue, elems, target_elem,
          lastProperty, inTypeSearch, inSubSearch, inFunctionSearch, inEnumSearch,
          inPropertySearch, exc, out, call, ret>>

-----------------------------------------------------------------------------
(* Characters                                                              *)

UpperChars == {"A","B","C","D","E","F","G","H","I","J","K","L","M",
               "N","O","P","Q","R","S","T","U","V","W","X","Y","Z"}
LowerChars == {"a","b","c","d","e","f","g","h","i","j","k","l","m",
               "n","o","p","q","r","s","t","u","v","w","x","y","z"}
DigitChars == {"0","1","2","3","4","5","6","7","8","9"}

\* str.lower() of one character
LowerCh(c) ==
  CASE c = "A" -> "a" [] c = "B" -> "b" [] c = "C" -> "c" [] c = "D" -> "d"
    [] c = "E" -> "e" [] c = "F" -> "f" [] c = "G" -> "g" [] c = "H" -> "h"
    [] c = "I" -> "i" [] c = "J" -> "j" [] c = "K" -> "k" [] c = "L" -> "l"
    [] c = "M" -> "m" [] c = "N" -> "n" [] c = "O" -> "o" [] c = "P" -> "p"
    [] c = "Q" -> "q" [] c = "R" -> "r" [] c = "S" -> "s" [] c = "T" -> "t"
    [] c = "U" -> "u" [] c = "V" -> "v" [] c = "W" -> "w" [] c = "X" -> "x"
    [] c = "Y" -> "y" [] c = "Z" -> "z" [] OTHER -> c

\* str.upper() of one character (re.I matches a character when either case does)
UpperCh(c) ==
  CASE c = "a" -> "A" [] c = "b" -> "B" [] c = "c" -> "C" [] c = "d" -> "D"
    [] c = "e" -> "E" [] c = "f" -> "F" [] c = "g" -> "G" [] c = "h" -> "H"
    [] c = "i" -> "I" [] c = "j" -> "J" [] c = "k" -> "K" [] c = "l" -> "L"
    [] c = "m" -> "M" [] c = "n" -> "N" [] c = "o" -> "O" [] c = "p" -> "P"
    [] c = "q" -> "Q" [] c = "r" -> "R" [] c = "s" -> "S" [] c = "t" -> "T"
    [] c = "u" -> "U" [] c = "v" -> "V" [] c = "w" -> "W" [] c = "x" -> "X"
    [] c = "y" -> "Y" [] c = "z" -> "Z" [] OTHER -> c

\* the character classes \w and \s; "." is every character but the newline
WordChars == UpperChars \cup LowerChars \cup DigitChars \cup {"_"}
SpaceChars == {" ", "\t", "\n", "\r", "\f"}

\* F(v), with v evaluated once however often F uses it
Let(v, F(_)) == CHOOSE y \in {F(x) : x \in {v}} : TRUE

Min(S) == CHOOSE i \in S : \A j \in S : i <= j
Max(S) == CHOOSE i \in S : \A j \in S : j <= i

Ch(str, i) == SubSeq(str, i, i)
\* str[a:b] of Python with 1-based a and exclusive b
Slice(str, a, b) == SubSeq(str, a, b - 1)

RECURSIVE LowerFrom(_, _)
LowerFrom(str, i) ==
  IF i > Len(str) THEN "" ELSE LowerCh(Ch(str, i)) \o LowerFrom(str, i + 1)

\* str.lower()
Lower(str) == Let(str, LAMBDA x : LowerFrom(x, 1))

\* str.strip()
Strip(str) ==
  Let(str, LAMBDA x :
    Let({i \in 1..Len(x) : Ch(x, i) \notin SpaceChars}, LAMBDA idx :
      IF idx = {} THEN "" ELSE SubSeq(x, Min(idx), Max(idx))))

StartsWith(str, pre) == Len(str) >= Len(pre) /\ SubSeq(str, 1, Len(pre)) = pre
EndsWith(str, suf) ==
  Len(str) >= Len(suf) /\ SubSeq(str, Len(str) - Len(suf) + 1, Len(str)) = suf

-----------------------------------------------------------------------------
(* Regular expressions: syntax                                             *)

Lit(str) == [t |-> "lit", s |-> str]
Set(cs) == [t |-> "set", neg |-> FALSE, cs |-> cs]
NotSet(cs) == [t |-> "set", neg |-> TRUE, cs |-> cs]
Cat(rs) == [t |-> "cat", rs |-> rs]
Alt(rs) == [t |-> "alt", rs |-> rs]
Star(r) == [t |-> "star", r |-> r]
Grp(n, r) == [t |-> "grp", n |-> n, r |-> r]
Bol == [t |-> "bol"]
Eol == [t |-> "eol"]
Opt(r) == Alt(<<r, Cat(<<>>)>>)
Plus(r) == Cat(<<r, Star(r)>>)
Dot == NotSet({"\n"})

\* the most groups any pattern has
MaxGroups == 8
\* <<0, 0>> is a group that took no part in the match (group(k) is None)
NoCaps == <<>> \o [k \in 1..MaxGroups |-> <<0, 0>>]

-----------------------------------------------------------------------------
(* Regular expressions: matching.  M gives every way r matches str from    *)
(* position i, as end position and groups, in the order Python's           *)
(* backtracking tries them; the first is the match Python reports.         *)

LitAt(l, str, i, ic) ==
  /\ i + Len(l) - 1 <= Len(str)
  /\ \A k \in 1..Len(l) :
       IF ic THEN LowerCh(Ch(l, k)) = LowerCh(Ch(str, i + k - 1))
       ELSE Ch(l, k) = Ch(str, i + k - 1)

InSet(r, ch, ic) ==
  (ch \in r.cs \/ (ic /\ (LowerCh(ch) \in r.cs \/ UpperCh(ch) \in r.cs))) # r.neg

RECURSIVE M(_, _, _, _, _), CatM(_, _, _, _, _, _), Then(_, _, _, _, _, _),
          AltM(_, _, _, _, _, _), StarM(_, _, _, _, _), StarK(_, _, _, _, _, _)

\* the rest rs[j..] of a concatenation after each of the matches ms
Then(ms, k, rs, j, str, ic) ==
  IF k > Len(ms) THEN <<>>
  ELSE CatM(rs, j, str, ms[k].p, ms[k].c, ic) \o Then(ms, k + 1, rs, j, str, ic)

CatM(rs, j, str, i, c, ic) ==
  IF j > Len(rs) THEN <<[p |-> i, c |-> c]>>
  ELSE Let(M(rs[j], str, i, c, ic), LAMBDA ms : Then(ms, 1, rs, j + 1, str, ic))

AltM(rs, j, str, i, c, ic) ==
  IF j > Len(rs) THEN <<>>
  ELSE M(rs[j], str, i, c, ic) \o AltM(rs, j + 1, str, i, c, ic)

\* more of r* after each of the matches ms of r at i that took characters
StarK(ms, k, r, str, i, ic) ==
  IF k > Len(ms) THEN <<>>
  ELSE (IF ms[k].p > i THEN StarM(r, str, ms[k].p, ms[k].c, ic) ELSE <<>>)
       \o StarK(ms, k + 1, r, str, i, ic)

\* r*, greedy.  A position where r matches in exactly one way, one character
\* long, is a plain step; a run of plain steps i .. j-1 is walked at once:
\* the matches from i are those from j followed by j-1, ..., i.
StarM(r, str, i, c, ic) ==
  LET Plain(a) == a <= Len(str) /\ M(r, str, a, c, ic) = <<[p |-> a + 1, c |-> c]>>
  IN Let(CHOOSE b \in i..(Len(str) + 1) : ~Plain(b) /\ \A a \in i..(b - 1) : Plain(a),
         LAMBDA j :
           Let(M(r, str, j, c, ic), LAMBDA ms : StarK(ms, 1, r, str, j, ic))
             \o <<[p |-> j, c |-> c]>>
             \o [k \in 1..(j - i) |-> [p |-> j - k, c |-> c]])

M(r, str, i, c, ic) ==
  CASE r.t = "lit" ->
         IF LitAt(r.s, str, i, ic) THEN <<[p |-> i + Len(r.s), c |-> c]>> ELSE <<>>
    [] r.t = "set" ->
         IF i <= Len(str) /\ InSet(r, Ch(str, i), ic)
         THEN <<[p |-> i + 1, c |-> c]>> ELSE <<>>
    [] r.t = "cat" -> CatM(r.rs, 1, str, i, c, ic)
    [] r.t = "alt" -> AltM(r.rs, 1, str, i, c, ic)
    [] r.t = "star" -> StarM(r.r, str, i, c, ic)
    [] r.t = "grp" ->
         Let(M(r.r, str, i, c, ic), LAMBDA ms :
           <<>> \o [k \in 1..Len(ms) |->
                      [p |-> ms[k].p, c |-> [ms[k].c EXCEPT ![r.n] = <<i, ms[k].p>>]]])
    [] r.t = "bol" -> IF i = 1 THEN <<[p |-> i, c |-> c]>> ELSE <<>>
    [] r.t = "eol" ->
         IF i = Len(str) + 1 \/ (i = Len(str) /\ Ch(str, i) = "\n")
         THEN <<[p |-> i, c |-> c]>> ELSE <<>>

\* the matches of r in str from position i on, with r and str evaluated once
MatchesAt(r, str, i, ic) ==
  CHOOSE y \in {M(rr, ss, i, cc, ic) : rr \in {r}, ss \in {str}, cc \in {NoCaps}} : TRUE

\* pattern.match(str): <<>> is None, else <<the match>>
ReMatch(r, str, ic) ==
  Let(MatchesAt(r, str, 1, ic), LAMBDA ms : IF ms = <<>> THEN <<>> ELSE <<ms[1]>>)

\* match.group(k) is None
GroupIsNone(m, k) == m.c[k] = <<0, 0>>
\* match.group(k), "" standing in where it is None (callers test GroupIsNone)
Group(str, m, k) == IF GroupIsNone(m, k) THEN "" ELSE Slice(str, m.c[k][1], m.c[k][2])

\* pattern.findall(str) for a pattern that matches no empty string: the
\* matches found scanning left to right, each search starting where the
\* last match ended
RECURSIVE FindFrom(_, _, _, _)
FindFrom(r, str, i, ic) ==
  IF i > Len(str) THEN <<>>
  ELSE Let(M(r, str, i, NoCaps, ic), LAMBDA ms :
         IF ms = <<>> THEN FindFrom(r, str, i + 1, ic)
         ELSE <<ms[1]>> \o FindFrom(r, str, ms[1].p, ic))

FindAll(r, str, i, ic) ==
  CHOOSE y \in {FindFrom(rr, ss, i, ic) : rr \in {r}, ss \in {str}} : TRUE

-----------------------------------------------------------------------------
(* conv_vb6.py: the patterns                                               *)

_ELEM_DEFAULT_ACCESS_LEVEL == "public"
_VAR_DEFAULT_ACCESS_LEVEL == "private"

S0 == Star(Set(SpaceChars))   \* \s*
S1 == Plus(Set(SpaceChars))   \* \s+
Word == Plus(Set(WordChars))  \* \w+
TypeName == Plus(Set(WordChars \cup {"."}))  \* [\w.]+

_ACCESS_LEVEL_RE(n) ==
  Grp(n, Alt(<<Cat(<<Lit("Grobal"), S1>>), Cat(<<Lit("Public"), S1>>),
               Cat(<<Lit("Friend"), S1>>), Cat(<<Lit("Private"), S1>>),
               Cat(<<Lit("Static"), S1>>)>>))
_VAL_KIND_RE(n) == Grp(n, Cat(<<Lit("Const"), S1>>))
_TELEM_KIND_RE == Cat(<<Lit("Type"), S1>>)
_EELEM_KIND_RE == Cat(<<Lit("Enum"), S1>>)
_FELEM_KIND_RE == Cat(<<Lit("Function"), S1>>)
_SELEM_KIND_RE == Cat(<<Lit("Sub"), S1>>)
_PGELEM_KIND_RE == Cat(<<Lit("Property"), S1, Lit("Get"), S1>>)
_PSELEM_KIND_RE(n) ==
  Cat(<<Lit("Property"), S1, Grp(n, Alt(<<Lit("Set"), Lit("Let")>>)), S1>>)

_ELEM_NAME_RE(n) == Grp(n, Word)
_VAL_NAME_RE(n, m) ==
  Cat(<<Grp(n, Word), Opt(Grp(m, Cat(<<Lit("("), Star(NotSet({")"})), Lit(")")>>)))>>)

_VAL_TYPE_RE(n) == Opt(Cat(<<S1, Lit("As"), S1, Grp(n, TypeName)>>))
_MVAL_TYPE_RE(n) ==
  Opt(Cat(<<S1, Lit("As"), S1, Opt(Cat(<<Lit("New"), S1>>)), Grp(n, TypeName)>>))
_RET_TYPE_RE(n, m) ==
  Opt(Cat(<<S0, Lit("As"), S1, Grp(n, TypeName), Opt(Grp(m, Lit("()")))>>))

\* _STRLIT_RE with a string literal ending at a comma
_STRLIT_RE_to_comma == Cat(<<Lit("\""), Star(NotSet({"\"", ","})), Lit("\"")>>)

_STRLIT_RE == Cat(<<Lit("\""), Star(Alt(<<NotSet({"\""}), Lit("\"\"")>>)), Lit("\"")>>)
_DATELIT_RE == Cat(<<Lit("#"), Star(NotSet({"#"})), Lit("#")>>)
_BOOLLIT_RE == Alt(<<Lit("True"), Lit("False")>>)
_NUMLIT_RE ==
  Cat(<<Opt(Set({"+", "-"})),
        Alt(<<Cat(<<Plus(Set(DigitChars)),
                    Opt(Cat(<<Lit("."), Plus(Set(DigitChars))>>)),
                    Opt(Cat(<<Set({"E", "D"}), Opt(Set({"+", "-"})), Plus(Set(DigitChars))>>))>>),
              Cat(<<Lit("&"), Set({"H"}), Plus(Set(DigitChars \cup {"A","B","C","D","E","F"}))>>),
              Cat(<<Lit("&"), Set({"O"}), Plus(Set({"0","1","2","3","4","5","6","7"}))>>),
              Cat(<<Lit("&"), Set({"B"}), Plus(Set({"0","1"}))>>)>>),
        Opt(Set({"!", "#", "@", "%", "&"}))>>)
_LIT_RE == Alt(<<_STRLIT_RE, _DATELIT_RE, _BOOLLIT_RE, _NUMLIT_RE>>)
_ARGS_RE(n) ==
  Cat(<<S0, Lit("("),
        Grp(n, Star(Alt(<<_STRLIT_RE, Lit("()"),
                          Set(WordChars \cup SpaceChars \cup {"=", ",", "+", "-", "*", "/", "."})>>))),
        Lit(")")>>)

_VAL_VALUE_RE(n) == Opt(Cat(<<S0, Lit("="), S0, Grp(n, _LIT_RE)>>))

_VAL_RE ==
  Cat(<<Bol, S0,
        Alt(<<Alt(<<_ACCESS_LEVEL_RE(1), _VAL_KIND_RE(2)>>),
              Cat(<<_ACCESS_LEVEL_RE(3), _VAL_KIND_RE(4)>>),
              Cat(<<Lit("Dim"), S1>>)>>),
        _VAL_NAME_RE(5, 6), _MVAL_TYPE_RE(7), _VAL_VALUE_RE(8), S0, Eol>>)
_TELEM_RE ==
  Cat(<<Bol, S0, Opt(_ACCESS_LEVEL_RE(1)), _TELEM_KIND_RE, _ELEM_NAME_RE(2), S0, Eol>>)
_EELEM_RE ==
  Cat(<<Bol, S0, Opt(_ACCESS_LEVEL_RE(1)), _EELEM_KIND_RE, _ELEM_NAME_RE(2), S0, Eol>>)
_FELEM_RE ==
  Cat(<<Bol, S0, Opt(_ACCESS_LEVEL_RE(1)), _FELEM_KIND_RE, _ELEM_NAME_RE(2), _ARGS_RE(3),
        _RET_TYPE_RE(4, 5), S0, Eol>>)
_SELEM_RE ==
  Cat(<<Bol, S0, Opt(_ACCESS_LEVEL_RE(1)), _SELEM_KIND_RE, _ELEM_NAME_RE(2), _ARGS_RE(3),
        S0, Eol>>)
_PGELEM_RE ==
  Cat(<<Bol, S0, Opt(_ACCESS_LEVEL_RE(1)), _PGELEM_KIND_RE, _ELEM_NAME_RE(2),
        S0, Lit("("), S0, Lit(")"), S0, _RET_TYPE_RE(3, 4), S0, Eol>>)
_PSELEM_RE ==
  Cat(<<Bol, S0, Opt(_ACCESS_LEVEL_RE(1)), _PSELEM_KIND_RE(2), _ELEM_NAME_RE(3), _ARGS_RE(4),
        S0, Eol>>)

_ARG_RE ==
  Cat(<<S0, Opt(Grp(1, Cat(<<Lit("Optional"), S1>>))),
        Opt(Grp(2, Alt(<<Cat(<<Lit("ByVal"), S1>>), Cat(<<Lit("ByRef"), S1>>)>>))),
        Opt(Grp(3, Cat(<<Lit("ParamArray"), S1>>))),
        _VAL_NAME_RE(4, 5), _VAL_TYPE_RE(6),
        Opt(Cat(<<S0, Lit("="), S0,
                  Grp(7, Alt(<<_STRLIT_RE, Plus(NotSet({",", ")"}))>>))>>)),
        Opt(Lit(","))>>)

\* the compiled patterns: the syntax tree and whether re.I is given
_re_doxy == [r |-> Cat(<<Bol, S0, Lit("'*"), Grp(1, Star(Dot)), Eol>>), ic |-> FALSE]
_re_doxy_class == [r |-> Cat(<<Bol, S0, Lit("'!"), Grp(1, Star(Dot)), Eol>>), ic |-> FALSE]
_re_comments ==
  [r |-> Cat(<<Grp(1, Star(Alt(<<Cat(<<Lit("\""), Star(Alt(<<NotSet({"\""}), Lit("\"\"")>>)),
                                       Lit("\"")>>),
                                 NotSet({"\"", "'"})>>))),
               Lit("'"), Star(Dot)>>),
   ic |-> FALSE]
_re_vb_name ==
  [r |-> Cat(<<S0, Lit("Attribute"), S1, Lit("VB_Name"), S1, Lit("="), S1,
               Lit("\""), Grp(1, Word), Lit("\"")>>),
   ic |-> TRUE]
_re_tag == [r |-> Cat(<<Bol, S0, Lit("'#"), S0, Grp(1, Lit("Interface")), S0, Eol>>), ic |-> FALSE]
_re_impl == [r |-> Cat(<<Bol, S0, Lit("Implements"), S1, Grp(1, Word), S0, Eol>>), ic |-> FALSE]
_re_arg == [r |-> _ARG_RE, ic |-> TRUE]
_re_values == [r |-> _VAL_RE, ic |-> TRUE]
_re_function == [r |-> _FELEM_RE, ic |-> TRUE]
_re_end_function == [r |-> Cat(<<Lit("End"), S1, Lit("Function")>>), ic |-> TRUE]
_re_sub == [r |-> _SELEM_RE, ic |-> TRUE]
_re_end_sub == [r |-> Cat(<<Lit("End"), S1, Lit("Sub")>>), ic |-> TRUE]
_re_type == [r |-> _TELEM_RE, ic |-> TRUE]
_re_end_type == [r |-> Cat(<<Lit("End"), S1, Lit("Type")>>), ic |-> TRUE]
_re_enum == [r |-> _EELEM_RE, ic |-> TRUE]
_re_enum_mem ==
  [r |-> Cat(<<Bol, S0, Grp(1, Word), Opt(Cat(<<S0, Lit("="), S0, Grp(2, Word)>>)), S0, Eol>>),
   ic |-> TRUE]
_re_end_enum == [r |-> Cat(<<Lit("End"), S1, Lit("Enum")>>), ic |-> TRUE]
_re_prop_get == [r |-> _PGELEM_RE, ic |-> TRUE]
_re_prop_set == [r |-> _PSELEM_RE, ic |-> TRUE]
_re_end_property == [r |-> Cat(<<Lit("End"), S1, Lit("Property")>>), ic |-> TRUE]

Match(re, str) == ReMatch(re.r, str, re.ic)

-----------------------------------------------------------------------------
(* codeconv.py: the Element model                                          *)

CodeElementType ==
  {"OTHER", "VAR", "CONST", "FUNC", "STRUCT", "DOC_COMMENT_LINE", "DOC_COMMENT_MULTI",
   "CLASS", "INTERFACE", "ENUM", "NAME_SPACE", "PROPERTY"}
CodeElementAccessibility == {"UNDEF", "PUBLIC", "PROTECTED", "INTERNAL", "PRIVATE"}

\* CodeElementArgument(arg_name, arg_type) with the defaults of __init__
CodeElementArgument(arg_name, arg_type) ==
  [name |-> arg_name, type |-> arg_type, is_reference |-> FALSE, is_optional |-> FALSE,
   is_vlargs |-> FALSE, is_kwargs |-> FALSE, default_value |-> "default", is_str |-> FALSE]

\* CodeElement(elem_name, elem_type) with the defaults of __init__; others is
\* the set of <<key, value>> pairs of **kwargs; parent 0 is None
CodeElement(elem_name, elem_type) ==
  [name |-> elem_name, elem_type |-> elem_type, return_type |-> "void",
   is_static |-> FALSE, accessibility |-> "UNDEF", value |-> "", is_str |-> FALSE,
   others |-> {}, parent |-> 0, childs |-> <<>>, arguments |-> <<>>]

\* an append that would put the new Element before the children already there
ChildsAppend_in_front(es, parent, value) ==
  Append([es EXCEPT ![parent].childs = <<Len(es) + 1>> \o @],
         [value EXCEPT !.parent = parent])

\* parent.childs.append(value) for a new Element value: it gets the next index
ChildsAppend(es, parent, value) ==
  Append([es EXCEPT ![parent].childs = Append(@, Len(es) + 1)],
         [value EXCEPT !.parent = parent])

LastChild(es, e) == es[e].childs[Len(es[e].childs)]

-----------------------------------------------------------------------------
(* conv_vb6.py: the helpers of Vb6Parser                                   *)

_strip_comments(str) ==
  Let(Match(_re_comments, str), LAMBDA m : IF m # <<>> THEN Group(str, m[1], 1) ELSE str)

\* str.replace('""', '"')
RECURSIVE ReplaceQuotes(_)
ReplaceQuotes(str) ==
  IF str = "" THEN ""
  ELSE IF StartsWith(str, "\"\"") THEN "\"" \o ReplaceQuotes(SubSeq(str, 3, Len(str)))
  ELSE Ch(str, 1) \o ReplaceQuotes(SubSeq(str, 2, Len(str)))

\* _extract_string_literal when nothing is taken for a string literal
_extract_string_literal_never(target_str) == [str |-> target_str, is_str |-> FALSE]

\* a None argument arrives here as "" and gives the same ("", False)
_extract_string_literal(target_str) ==
  LET is_str == StartsWith(target_str, "\"")
  IN [str |-> IF is_str THEN ReplaceQuotes(SubSeq(target_str, 2, Len(target_str) - 1))
              ELSE target_str,
      is_str |-> is_str]

\* None arguments arrive here as ""
_format_array_type(var_type, arr_str) ==
  LET t == IF Strip(var_type) = "" THEN "Variant" ELSE Strip(var_type)
  IN IF Strip(arr_str) = "" THEN t ELSE t \o "[]"

\* ok is FALSE where the method falls off its end and returns None
_get_accessibility(str, default_access) ==
  LET accessibility == IF str = "" THEN default_access ELSE Lower(Strip(str))
  IN CASE accessibility = "private" -> [ok |-> TRUE, access |-> "PRIVATE", is_static |-> FALSE]
       [] accessibility = "grobal" -> [ok |-> TRUE, access |-> "PUBLIC", is_static |-> FALSE]
       [] accessibility = "public" -> [ok |-> TRUE, access |-> "PUBLIC", is_static |-> FALSE]
       [] accessibility = "friend" -> [ok |-> TRUE, access |-> "INTERNAL", is_static |-> FALSE]
       [] accessibility = "static" -> [ok |-> TRUE, access |-> "PUBLIC", is_static |-> TRUE]
       [] OTHER -> [ok |-> FALSE, access |-> "UNDEF", is_static |-> FALSE]

\* one item of findall to one CodeElementArgument
ArgOfItem(args_str, item) ==
  LET opt_str == Strip(Group(args_str, item, 1))
      val_ref == Strip(Group(args_str, item, 2))
      param_arr == Strip(Group(args_str, item, 3))
      arg_name == Strip(Group(args_str, item, 4))
      arr_str == Strip(Group(args_str, item, 5))
      arg_type == _format_array_type(Strip(Group(args_str, item, 6)), arr_str)
      lit == _extract_string_literal(Strip(Group(args_str, item, 7)))
      arg_obj == [CodeElementArgument(arg_name, arg_type) EXCEPT
                    !.is_reference = Lower(val_ref) # "byval",
                    !.is_optional = Lower(opt_str) = "optional",
                    !.is_vlargs = Lower(param_arr) = "paramarray",
                    !.is_str = lit.is_str]
  IN IF lit.str # "" \/ lit.is_str THEN [arg_obj EXCEPT !.default_value = lit.str]
     ELSE arg_obj

\* None arrives here as ""
_build_args_list(args_str) ==
  Let(Strip(args_str), LAMBDA str :
  Let(FindAll(_re_arg.r, str, 1, _re_arg.ic), LAMBDA args_match_result :
    <<>> \o [k \in 1..Len(args_match_result) |-> ArgOfItem(str, args_match_result[k])]))

-----------------------------------------------------------------------------
(* conv_vb6.py: the methods of Vb6Parser that read one logical line.  Each  *)
(* takes the Elements es, the line and the scope, and gives what it        *)
(* returns together with the Elements as it leaves them.                   *)

\* _found_doxy_comment with the comment appended to the parent of the scope
_found_doxy_comment_in_parent(es, str, target) ==
  LET doxy_result == Match(_re_doxy, str)
  IN IF doxy_result = <<>> THEN [found |-> FALSE, es |-> es]
     ELSE LET com_obj == [CodeElement("", "DOC_COMMENT_LINE") EXCEPT
                            !.value = Group(str, doxy_result[1], 1)]
          IN [found |-> TRUE, es |-> ChildsAppend(es, es[target].parent, com_obj)]

_found_doxy_comment(es, str, target) ==
  LET doxy_result == Match(_re_doxy, str)
  IN IF doxy_result = <<>> THEN [found |-> FALSE, es |-> es]
     ELSE LET com_obj == [CodeElement("", "DOC_COMMENT_LINE") EXCEPT
                            !.value = Group(str, doxy_result[1], 1)]
          IN [found |-> TRUE, es |-> ChildsAppend(es, target, com_obj)]

_found_member(es, str, target) ==
  Let(_strip_comments(str), LAMBDA line :
  Let(Match(_re_values, line), LAMBDA match_result :
  IF match_result = <<>> THEN [found |-> FALSE, es |-> es]
     ELSE LET m == match_result[1]
              access_str == IF ~GroupIsNone(m, 1) THEN Strip(Group(line, m, 1))
                            ELSE IF ~GroupIsNone(m, 3) THEN Strip(Group(line, m, 3))
                            ELSE ""
              acc == _get_accessibility(access_str, _VAR_DEFAULT_ACCESS_LEVEL)
              const_str == IF ~GroupIsNone(m, 2) THEN Strip(Group(line, m, 2))
                           ELSE IF ~GroupIsNone(m, 4) THEN Strip(Group(line, m, 4))
                           ELSE ""
              var_name == Strip(Group(line, m, 5))
              var_type == _format_array_type(Group(line, m, 7), Group(line, m, 6))
              lit == _extract_string_literal(Group(line, m, 8))
              var_obj ==
                IF Lower(const_str) = "const"
                THEN [CodeElement(var_name, "CONST") EXCEPT
                        !.return_type = var_type, !.accessibility = acc.access,
                        !.value = lit.str, !.is_str = lit.is_str]
                ELSE [CodeElement(var_name, "VAR") EXCEPT
                        !.return_type = var_type, !.accessibility = acc.access,
                        !.arguments = <<CodeElementArgument("", var_type)>>]
          IN [found |-> TRUE, es |-> ChildsAppend(es, target, var_obj)]))

_find_function(es, str, target) ==
  Let(_strip_comments(str), LAMBDA line :
  Let(Match(_re_function, line), LAMBDA match_result :
  IF match_result = <<>> THEN [found |-> FALSE, es |-> es, target |-> target]
     ELSE Let(_build_args_list(Group(line, match_result[1], 3)), LAMBDA args_list :
          LET m == match_result[1]
              acc == _get_accessibility(Group(line, m, 1), _ELEM_DEFAULT_ACCESS_LEVEL)
              func_name == Strip(Group(line, m, 2))
              ret_type == _format_array_type(Group(line, m, 4), Group(line, m, 5))
              func_elem == [CodeElement(func_name, "FUNC") EXCEPT
                              !.return_type = ret_type, !.is_static = acc.is_static,
                              !.accessibility = acc.access, !.arguments = args_list]
          IN [found |-> TRUE, es |-> ChildsAppend(es, target, func_elem),
              target |-> Len(es) + 1])))

\* _process_function when the closing line leaves the scope where it is
_process_function_keeping_scope(es, str, target) ==
  [active |-> Match(_re_end_function, _strip_comments(str)) = <<>>, target |-> target]

_process_function(es, str, target) ==
  IF Match(_re_end_function, _strip_comments(str)) # <<>>
  THEN [active |-> FALSE, target |-> es[target].parent]
  ELSE [active |-> TRUE, target |-> target]

_find_sub(es, str, target) ==
  Let(_strip_comments(str), LAMBDA line :
  Let(Match(_re_sub, line), LAMBDA match_result :
  IF match_result = <<>> THEN [found |-> FALSE, es |-> es, target |-> target]
     ELSE Let(_build_args_list(Group(line, match_result[1], 3)), LAMBDA args_list :
          LET m == match_result[1]
              acc == _get_accessibility(Group(line, m, 1), _ELEM_DEFAULT_ACCESS_LEVEL)
              sub_name == Strip(Group(line, m, 2))
              sub_elem == [CodeElement(sub_name, "FUNC") EXCEPT
                             !.is_static = acc.is_static, !.accessibility = acc.access,
                             !.arguments = args_list]
          IN [found |-> TRUE, es |-> ChildsAppend(es, target, sub_elem),
              target |-> Len(es) + 1])))

_process_sub(es, str, target) ==
  IF Match(_re_end_sub, _strip_comments(str)) # <<>>
  THEN [active |-> FALSE, target |-> es[target].parent]
  ELSE [active |-> TRUE, target |-> target]

_find_type(es, str, target) ==
  Let(_strip_comments(str), LAMBDA line :
  Let(Match(_re_type, line), LAMBDA match_result :
  IF match_result = <<>> THEN [found |-> FALSE, es |-> es, target |-> target]
     ELSE LET m == match_result[1]
              acc == _get_accessibility(Group(line, m, 1), _ELEM_DEFAULT_ACCESS_LEVEL)
              type_name == Strip(Group(line, m, 2))
              sub_elem == [CodeElement(type_name, "STRUCT") EXCEPT
                             !.accessibility = acc.access]
          IN [found |-> TRUE, es |-> ChildsAppend(es, target, sub_elem),
              target |-> Len(es) + 1]))

_process_type(es, str, target) ==
  IF Match(_re_end_type, _strip_comments(str)) # <<>>
  THEN [active |-> FALSE, es |-> es, target |-> es[target].parent]
  ELSE [active |-> TRUE, es |-> _found_member(es, str, target).es, target |-> target]

_find_enum(es, str, target) ==
  Let(_strip_comments(str), LAMBDA line :
  Let(Match(_re_enum, line), LAMBDA match_result :
  IF match_result = <<>> THEN [found |-> FALSE, es |-> es, target |-> target]
     ELSE LET m == match_result[1]
              acc == _get_accessibility(Group(line, m, 1), _ELEM_DEFAULT_ACCESS_LEVEL)
              enum_name == Strip(Group(line, m, 2))
              enum_elem == [CodeElement(enum_name, "ENUM") EXCEPT
                              !.accessibility = acc.access]
          IN [found |-> TRUE, es |-> ChildsAppend(es, target, enum_elem),
              target |-> Len(es) + 1]))

_process_enum(es, str, target) ==
  Let(_strip_comments(str), LAMBDA line :
    IF Match(_re_end_enum, line) # <<>>
    THEN [active |-> FALSE, es |-> es, target |-> es[target].parent]
    ELSE Let(Match(_re_enum_mem, line), LAMBDA match_result :
           IF match_result = <<>> THEN [active |-> TRUE, es |-> es, target |-> target]
           ELSE LET mem_name == Strip(Group(line, match_result[1], 1))
                    mem_value == Group(line, match_result[1], 2)
                    mem_obj == [CodeElement(mem_name, "CONST") EXCEPT !.value = mem_value]
                IN [active |-> TRUE, es |-> ChildsAppend(es, target, mem_obj),
                    target |-> target]))

\* exc is the exception the method raises ("" when it returns)
_find_property_get(es, str, target, prev_elem) ==
  Let(_strip_comments(str), LAMBDA line :
  Let(Match(_re_prop_get, line), LAMBDA match_result :
  IF match_result = <<>>
     THEN [found |-> FALSE, es |-> es, target |-> target, last |-> prev_elem, exc |-> ""]
     ELSE LET m == match_result[1]
              acc == _get_accessibility(Group(line, m, 1), _ELEM_DEFAULT_ACCESS_LEVEL)
              prop_name == Strip(Group(line, m, 2))
              ret_type == _format_array_type(Group(line, m, 3), Group(line, m, 4))
          IN IF prev_elem # 0 /\ es[prev_elem].name = prop_name
             THEN IF es[prev_elem].arguments = <<>>
                  THEN [found |-> FALSE, es |-> es, target |-> target, last |-> prev_elem,
                        exc |-> "IndexError"]
                  ELSE [found |-> TRUE,
                        es |-> [es EXCEPT ![prev_elem].return_type =
                                            es[prev_elem].arguments[1].type],
                        target |-> prev_elem, last |-> prev_elem, exc |-> ""]
             ELSE LET result_elem == [CodeElement(prop_name, "PROPERTY") EXCEPT
                                        !.return_type = ret_type,
                                        !.accessibility = acc.access,
                                        !.is_static = acc.is_static]
                  IN [found |-> TRUE, es |-> ChildsAppend(es, target, result_elem),
                      target |-> Len(es) + 1, last |-> Len(es) + 1, exc |-> ""]))

_find_property_set(es, str, target, prev_elem) ==
  Let(_strip_comments(str), LAMBDA line :
  Let(Match(_re_prop_set, line), LAMBDA match_result :
  IF match_result = <<>>
     THEN [found |-> FALSE, es |-> es, target |-> target, last |-> prev_elem, exc |-> ""]
     ELSE Let(_build_args_list(Group(line, match_result[1], 4)), LAMBDA args_list :
          LET m == match_result[1]
              acc == _get_accessibility(Group(line, m, 1), _ELEM_DEFAULT_ACCESS_LEVEL)
              prop_name == Strip(Group(line, m, 3))
              raise == [found |-> FALSE, es |-> es, target |-> target, last |-> prev_elem,
                        exc |-> "IndexError"]
          IN IF prev_elem # 0 /\ es[prev_elem].name = prop_name
             THEN IF es[prev_elem].arguments = <<>> /\ args_list = <<>> THEN raise
                  ELSE LET arguments == IF es[prev_elem].arguments = <<>>
                                        THEN <<args_list[1]>>
                                        ELSE es[prev_elem].arguments
                       IN [found |-> TRUE,
                           es |-> [es EXCEPT ![prev_elem].arguments = arguments,
                                             ![prev_elem].return_type = arguments[1].type],
                           target |-> prev_elem, last |-> prev_elem, exc |-> ""]
             ELSE IF args_list = <<>> THEN raise
                  ELSE LET result_elem == [CodeElement(prop_name, "PROPERTY") EXCEPT
                                             !.accessibility = acc.access,
                                             !.is_static = acc.is_static,
                                             !.arguments = <<args_list[1]>>]
                       IN [found |-> TRUE, es |-> ChildsAppend(es, target, result_elem),
                           target |-> Len(es) + 1, last |-> Len(es) + 1, exc |-> ""])))

_process_property(es, str, target) ==
  IF Match(_re_end_property, _strip_comments(str)) # <<>>
  THEN [active |-> FALSE, target |-> es[target].parent]
  ELSE [active |-> TRUE, target |-> target]

-----------------------------------------------------------------------------
(* conv_vb6.py: the scans of the whole input that parse runs first         *)

RECURSIVE _process_global_comments(_, _, _, _)
_process_global_comments(es, r, k, target) ==
  IF k > Len(r) THEN es
  ELSE Let(Match(_re_doxy_class, r[k]), LAMBDA gcom :
         IF gcom = <<>> THEN _process_global_comments(es, r, k + 1, target)
         ELSE Let(ChildsAppend(es, target,
                    [CodeElement("", "DOC_COMMENT_LINE") EXCEPT
                       !.value = Group(r[k], gcom[1], 1)]),
                  LAMBDA es2 : _process_global_comments(es2, r, k + 1, target)))

\* _has_intf_tag that finds no tag
_has_intf_tag_never(lines) == FALSE

_has_intf_tag(lines) ==
  \E k \in 1..Len(lines) :
    \E match_result \in {Match(_re_tag, lines[k])} :
      match_result # <<>> /\ Group(lines[k], match_result[1], 1) = "Interface"

\* group 1 of the first line of r that pattern re matches once its comment
\* is stripped, as <<the group>>; <<>> when no line matches
FirstGroup(re, r) ==
  Let(<<>> \o [k \in 1..Len(r) |-> Let(_strip_comments(r[k]), LAMBDA line :
         Let(Match(re, line), LAMBDA match_result :
           IF match_result = <<>> THEN <<>>
           ELSE <<Group(line, match_result[1], 1)>>))],
      LAMBDA gs :
        Let({k \in 1..Len(r) : gs[k] # <<>>}, LAMBDA hits :
          IF hits = {} THEN <<>> ELSE gs[Min(hits)]))

\* the Element appended is the last of the result
_process_class_name(es, r, target, is_intf) ==
  Let(FirstGroup(_re_vb_name, r), LAMBDA g :
    ChildsAppend(es, target,
      CodeElement(IF g = <<>> THEN "DummyName" ELSE g[1],
                  IF is_intf THEN "INTERFACE" ELSE "CLASS")))

_process_impl(es, r, class_elem) ==
  Let(FirstGroup(_re_impl, r), LAMBDA super_class :
    IF super_class = <<>> THEN es
    ELSE [es EXCEPT ![class_elem].others = @ \cup {<<"implements", super_class>>}])

\* _parse_cls up to its loop: the Elements and the scope it starts with
ParseClsSetup(mt, lines) ==
  Let(ChildsAppend(<<CodeElement("root", "OTHER")>>, 1,
        CodeElement(IF mt = "FORM" THEN "Form" ELSE "Class", "NAME_SPACE")),
      LAMBDA es1 :
  Let(_process_global_comments(es1, lines, 1, 2), LAMBDA es2 :
  Let(_process_class_name(es2, lines, 2, _has_intf_tag(lines)), LAMBDA es3 :
    [es |-> _process_impl(es3, lines, Len(es3)), target |-> Len(es3)])))

\* _parse_bas up to its loop
ParseBasSetup(lines) ==
  Let(ChildsAppend(
        ChildsAppend(<<CodeElement("root", "OTHER")>>, 1,
          [CodeElement("using", "OTHER") EXCEPT !.others = {<<"using", <<"Class">>>>}]),
        1, CodeElement("Standard", "NAME_SPACE")),
      LAMBDA es1 :
  Let(_process_global_comments(es1, lines, 1, 3), LAMBDA es2 :
  Let(_process_class_name(es2, lines, 3, FALSE), LAMBDA es3 :
    [es |-> es3, target |-> Len(es3)])))

-----------------------------------------------------------------------------
(* conv_csharp.py: CsharpGenerator.  A generating method takes the lines   *)
(* written so far and returns them extended, with the exception it raised  *)
(* ("" when it returned).                                                  *)

_INDENT_STR == "    "

\* a return_type of None
None == "<None>"

\* an f-string's rendering of a field
Fmt(x) == IF x = None THEN "None" ELSE x

HasKey(others, key) == \E kv \in others : kv[1] = key
Get(others, key) == (CHOOSE kv \in others : kv[1] = key)[2]

RECURSIVE Join(_, _)
Join(strs, sep) ==
  IF strs = <<>> THEN ""
  ELSE IF Len(strs) = 1 THEN strs[1]
  ELSE strs[1] \o sep \o Join(Tail(strs), sep)

RECURSIVE _get_indent_str(_)
_get_indent_str(indent) ==
  IF indent = 0 THEN "" ELSE _INDENT_STR \o _get_indent_str(indent - 1)

_get_access_str(target) ==
  CASE target.accessibility = "PUBLIC" -> "public "
    [] target.accessibility = "PROTECTED" -> "protected "
    [] target.accessibility = "INTERNAL" -> "internal "
    [] target.accessibility = "PRIVATE" -> "private "
    [] OTHER -> ""

_get_static_str(target) == IF target.is_static THEN "static " ELSE ""

\* the entries of _replacements that a line of text can hold
_replacements(ch) ==
  CASE ch = "\\" -> "\\\\"
    [] ch = "\"" -> "\\\""
    [] ch = "\n" -> "\\n"
    [] ch = "\r" -> "\\r"
    [] ch = "\t" -> "\\t"
    [] ch = "\f" -> "\\f"
    [] OTHER -> ch

RECURSIVE Escaped(_)
Escaped(str) ==
  IF str = "" THEN ""
  ELSE _replacements(Ch(str, 1)) \o Escaped(SubSeq(str, 2, Len(str)))

_get_value_str(target_value, is_str) ==
  IF is_str THEN "\"" \o Escaped(target_value) \o "\"" ELSE target_value

\* ord() of a character a line of text can hold: the characters from the
\* space (32) to "_" (95) and from "a" (97) to "~" (126), and four controls
Printable ==
  " !\"#$%&'()*+,-./0123456789:;<=>?@ABCDEFGHIJKLMNOPQRSTUVWXYZ[\\]^_abcdefghijklmnopqrstuvwxyz{|}~"
ord(ch) ==
  CASE ch = "\t" -> 9 [] ch = "\n" -> 10 [] ch = "\f" -> 12 [] ch = "\r" -> 13
    [] OTHER -> LET i == CHOOSE i \in 1..Len(Printable) : Ch(Printable, i) = ch
                IN IF i <= 64 THEN 31 + i ELSE 32 + i
Ords(str) == [i \in 1..Len(str) |-> ord(Ch(str, i))]

\* _replacements with the entry of the vertical tab left out
_replacements_ord_without_v ==
  (92 :> <<92, 92>>) @@ (34 :> <<92, 34>>) @@ (0 :> <<92, 48>>) @@ (7 :> <<92, 97>>)
    @@ (8 :> <<92, 98>>) @@ (12 :> <<92, 102>>) @@ (10 :> <<92, 110>>)
    @@ (13 :> <<92, 114>>) @@ (9 :> <<92, 116>>)

\* _replacements, all ten entries, on code points: "\0", "\a", "\b" and "\v"
\* are characters no string of the model can hold. ord("\\") = 92,
\* ord('"') = 34, and the escapes end in "0" (48), "a" (97), "b" (98),
\* "f" (102), "n" (110), "r" (114), "t" (116), "v" (118)
_replacements_ord ==
  (92 :> <<92, 92>>) @@ (34 :> <<92, 34>>) @@ (0 :> <<92, 48>>) @@ (7 :> <<92, 97>>)
    @@ (8 :> <<92, 98>>) @@ (12 :> <<92, 102>>) @@ (10 :> <<92, 110>>)
    @@ (13 :> <<92, 114>>) @@ (9 :> <<92, 116>>) @@ (11 :> <<92, 118>>)

\* the loop of _get_value_str over the code points of target_value
RECURSIVE EscapedOrds(_)
EscapedOrds(cs) ==
  IF cs = <<>> THEN <<>>
  ELSE (IF Head(cs) \in DOMAIN _replacements_ord THEN _replacements_ord[Head(cs)]
        ELSE <<Head(cs)>>) \o EscapedOrds(Tail(cs))

\* _get_value_str on the code points of target_value
_get_value_ords(cs, is_str) ==
  IF is_str THEN <<34>> \o EscapedOrds(cs) \o <<34>> ELSE cs

\* _get_valref_str with the keyword never written
_get_valref_str_never(target_arg) == ""

_get_valref_str(target_arg) == IF target_arg.is_reference THEN "ref " ELSE ""

_get_args_str_core(arg_obj) ==
  LET val_ref == _get_valref_str(arg_obj)
  IN IF arg_obj.is_optional
     THEN val_ref \o arg_obj.type \o " " \o arg_obj.name \o " = "
            \o _get_value_str(arg_obj.default_value, arg_obj.is_str)
     ELSE val_ref \o arg_obj.type \o " " \o arg_obj.name

_get_args_str(target) ==
  Join([k \in 1..Len(target.arguments) |-> _get_args_str_core(target.arguments[k])], ", ")

\* _get_getset_str with the None of its tuple left out
_get_getset_str_without_None(target) ==
  LET is_get == target.return_type \notin {"void", ""}
      is_set == Len(target.arguments) # 0
  IN IF is_get /\ ~is_set THEN [exc |-> "", str |-> "get;"]
     ELSE IF ~is_get /\ is_set THEN [exc |-> "", str |-> "set;"]
     ELSE IF is_get /\ is_set THEN [exc |-> "", str |-> "get; set;"]
     ELSE [exc |-> "CannotGenerateException", str |-> ""]

\* str is the string returned, exc the exception raised instead
_get_getset_str(target) ==
  LET is_get == target.return_type \notin {"void", "", None}
      is_set == Len(target.arguments) # 0
  IN IF is_get /\ ~is_set THEN [exc |-> "", str |-> "get;"]
     ELSE IF ~is_get /\ is_set THEN [exc |-> "", str |-> "set;"]
     ELSE IF is_get /\ is_set THEN [exc |-> "", str |-> "get; set;"]
     ELSE [exc |-> "CannotGenerateException", str |-> ""]

Returned(lines) == [exc |-> "", lines |-> lines]
Raised(lines, e) == [exc |-> e, lines |-> lines]

_generate_var(lines, indent, target) ==
  LET indent_str == _get_indent_str(indent)
  IN Returned(lines \o
       <<indent_str \o _get_access_str(target) \o _get_static_str(target)
           \o Fmt(target.return_type) \o " " \o target.name \o ";",
         indent_str>>)

_generate_const(lines, indent, target) ==
  LET indent_str == _get_indent_str(indent)
  IN Returned(lines \o
       <<indent_str \o _get_access_str(target) \o "const " \o Fmt(target.return_type)
           \o " " \o target.name \o " = "
           \o _get_value_str(target.value, target.is_str) \o ";",
         indent_str>>)

_generate_doc_line(lines, indent, target) ==
  Returned(Append(lines, _get_indent_str(indent) \o "///" \o target.value))

_generate_doc_multi(lines, indent, target) ==
  Raised(lines, "NotImplementedError")

_generate_func(lines, indent, target, as_intf) ==
  LET indent_str == _get_indent_str(indent)
      head == indent_str \o _get_access_str(target) \o _get_static_str(target)
                \o Fmt(target.return_type) \o " " \o target.name
                \o "(" \o _get_args_str(target) \o ")"
  IN IF as_intf THEN Returned(lines \o <<head \o ";", indent_str>>)
     ELSE Returned(lines \o
            <<head, indent_str \o "{", indent_str \o "}", indent_str>>)

_generate_property(lines, indent, target) ==
  LET indent_str == _get_indent_str(indent)
      elem_getset == _get_getset_str(target)
  IN IF elem_getset.exc # "" THEN Raised(lines, elem_getset.exc)
     ELSE Returned(Append(lines,
            indent_str \o _get_access_str(target) \o _get_static_str(target)
              \o Fmt(target.return_type) \o " " \o target.name
              \o " { " \o elem_getset.str \o " })"))

\* the loop of _generate_struct over the children from the k-th on
RECURSIVE StructChilds(_, _, _, _, _)
StructChilds(es, lines, indent, childs, k) ==
  IF k > Len(childs) THEN Returned(lines)
  ELSE LET child_elem == es[childs[k]]
       IN Let(IF child_elem.elem_type = "DOC_COMMENT_LINE"
              THEN _generate_doc_line(lines, indent + 1, child_elem)
              ELSE IF child_elem.elem_type = "DOC_COMMENT_MULTI"
              THEN _generate_doc_multi(lines, indent + 1, child_elem)
              ELSE Returned(lines \o
                     <<_get_indent_str(indent + 1) \o "public "
                         \o Fmt(child_elem.return_type) \o " " \o child_elem.name \o ";",
                       _get_indent_str(indent)>>),
              LAMBDA r :
                IF r.exc # "" THEN r ELSE StructChilds(es, r.lines, indent, childs, k + 1))

_generate_struct(es, lines, indent, target) ==
  Let(StructChilds(es,
        lines \o <<_get_indent_str(indent) \o _get_access_str(target)
                     \o "struct " \o target.name, "{">>,
        indent, target.childs, 1),
      LAMBDA r : IF r.exc # "" THEN r ELSE Returned(Append(r.lines, "}")))

\* the loop of _generate_enum over the children from the k-th on
RECURSIVE EnumChilds(_, _, _, _, _)
EnumChilds(es, lines, indent, childs, k) ==
  IF k > Len(childs) THEN Returned(lines)
  ELSE LET child_elem == es[childs[k]]
           indent_str_mem == _get_indent_str(indent + 1)
       IN Let(IF child_elem.elem_type = "DOC_COMMENT_LINE"
              THEN _generate_doc_line(lines, indent + 1, child_elem)
              ELSE IF child_elem.elem_type = "DOC_COMMENT_MULTI"
              THEN _generate_doc_multi(lines, indent + 1, child_elem)
              ELSE IF child_elem.value = ""
              THEN Returned(Append(lines, indent_str_mem \o child_elem.name \o ","))
              ELSE Returned(Append(lines, indent_str_mem \o child_elem.name \o " = "
                                            \o child_elem.value \o ",")),
              LAMBDA r :
                IF r.exc # "" THEN r ELSE EnumChilds(es, r.lines, indent, childs, k + 1))

_generate_enum(es, lines, indent, target) ==
  Let(EnumChilds(es,
        lines \o <<_get_indent_str(indent) \o _get_access_str(target)
                     \o "enum " \o target.name, "{">>,
        indent, target.childs, 1),
      LAMBDA r : IF r.exc # "" THEN r ELSE Returned(Append(r.lines, "}")))

\* the inheritance clause of _generate_class and _generate_intf
ElemSuper(target) ==
  LET has_super == HasKey(target.others, "super")
      raises == has_super /\ ~HasKey(target.others, "extends")
      elem_super == IF has_super /\ ~raises
                    THEN " : " \o Join(Get(target.others, "extends"), ", ")
                    ELSE ""
      impl == Join(Get(target.others, "implements"), ", ")
  IN IF raises THEN [exc |-> "KeyError", str |-> ""]
     ELSE IF HasKey(target.others, "implements")
     THEN [exc |-> "",
           str |-> IF elem_super = "" THEN " : " \o impl ELSE elem_super \o ", " \o impl]
     ELSE [exc |-> "", str |-> elem_super]

RECURSIVE _generate_common(_, _, _, _, _)
RECURSIVE CommonChilds(_, _, _, _, _, _)

\* the loop of _generate_class, _generate_intf and _generate_namespace
CommonChilds(es, lines, indent, childs, k, as_intf) ==
  IF k > Len(childs) THEN Returned(lines)
  ELSE Let(_generate_common(es, lines, indent + 1, childs[k], as_intf), LAMBDA r :
         IF r.exc # "" THEN r ELSE CommonChilds(es, r.lines, indent, childs, k + 1, as_intf))

\* _generate_class, and _generate_intf when keyword is "interface "
ClassOrIntf(es, lines, indent, target, keyword, as_intf) ==
  LET indent_str == _get_indent_str(indent)
      elem_super == ElemSuper(target)
  IN IF elem_super.exc # "" THEN Raised(lines, elem_super.exc)
     ELSE Let(CommonChilds(es,
                lines \o <<indent_str \o _get_access_str(target) \o _get_static_str(target)
                             \o keyword \o target.name \o elem_super.str,
                           indent_str \o "{">>,
                indent, target.childs, 1, as_intf),
              LAMBDA r :
                IF r.exc # "" THEN r
                ELSE Returned(r.lines \o <<indent_str \o "}", indent_str>>))

_generate_class(es, lines, indent, target) ==
  ClassOrIntf(es, lines, indent, target, "class ", FALSE)

_generate_intf(es, lines, indent, target) ==
  ClassOrIntf(es, lines, indent, target, "interface ", TRUE)

_generate_namespace(es, lines, indent, target) ==
  Let(CommonChilds(es,
        lines \o <<_get_indent_str(indent) \o "namespace " \o target.name, "{">>,
        indent, target.childs, 1, FALSE),
      LAMBDA r : IF r.exc # "" THEN r ELSE Returned(Append(r.lines, "}")))

\* elem is the index in es of the Element to generate
_generate_common(es, lines, indent, elem, as_intf) ==
  LET target == es[elem]
      t == target.elem_type
  IN CASE t = "VAR" -> _generate_var(lines, indent, target)
       [] t = "CONST" -> _generate_const(lines, indent, target)
       [] t = "FUNC" -> _generate_func(lines, indent, target, as_intf)
       [] t = "STRUCT" -> _generate_struct(es, lines, indent, target)
       [] t = "DOC_COMMENT_LINE" -> _generate_doc_line(lines, indent, target)
       [] t = "DOC_COMMENT_MULTI" -> _generate_doc_multi(lines, indent, target)
       [] t = "CLASS" -> _generate_class(es, lines, indent, target)
       [] t = "INTERFACE" -> _generate_intf(es, lines, indent, target)
       [] t = "ENUM" -> _generate_enum(es, lines, indent, target)
       [] t = "NAME_SPACE" -> _generate_namespace(es, lines, indent, target)
       [] t = "PROPERTY" -> _generate_property(lines, indent, target)
       [] OTHER -> Raised(lines, "NotImplementedError")

\* generate returns the lines; when it raises the caller gets none
generate(es, root) ==
  Let(_generate_common(es, <<>>, 0, root, FALSE), LAMBDA r :
    IF r.exc # "" THEN Raised(<<>>, r.exc) ELSE r)

-----------------------------------------------------------------------------
(* The pipeline of main.py: parse the lines of one file, then generate.    *)
(* pc is the position in Vb6Parser.parse: one step per call the loop of    *)
(* _parse_cls / _parse_bas makes on the current logical line.              *)

Vb6ModuleType == {"STANDARD", "CLASS", "FORM"}

flags == <<inTypeSearch, inSubSearch, inFunctionSearch, inEnumSearch, inPropertySearch>>
input == <<module_type, code_lines>>
direct == <<call, ret>>

NoCall == [op |-> ""]
NoRet == [found |-> FALSE]

IsCls == module_type \in {"CLASS", "FORM"}

\* the state before parse is called on the lines of a file
Start(mt, lines) ==
  /\ module_type = mt
  /\ code_lines = lines
  /\ pc = "start"
  /\ ln_i = 0
  /\ s = ""
  /\ lineContinue = FALSE
  /\ elems = <<>>
  /\ target_elem = 0
  /\ lastProperty = 0
  /\ inTypeSearch = FALSE
  /\ inSubSearch = FALSE
  /\ inFunctionSearch = FALSE
  /\ inEnumSearch = FALSE
  /\ inPropertySearch = FALSE
  /\ exc = ""
  /\ out = <<>>
  /\ call = NoCall
  /\ ret = NoRet

\* `continue`: on to the next line of the for loop
Continue ==
  /\ ln_i' = ln_i + 1
  /\ pc' = "for"

\* _parse_cls up to its loop
ParseCls ==
  /\ pc = "start"
  /\ IsCls
  /\ \E r \in {ParseClsSetup(module_type, code_lines)} :
        elems' = r.es /\ target_elem' = r.target
  /\ ln_i' = 1
  /\ pc' = "for"
  /\ UNCHANGED <<input, s, lineContinue, lastProperty, flags, exc, out, direct>>

\* _parse_bas up to its loop
ParseBas ==
  /\ pc = "start"
  /\ ~IsCls
  /\ \E r \in {ParseBasSetup(code_lines)} :
        elems' = r.es /\ target_elem' = r.target
  /\ ln_i' = 1
  /\ pc' = "for"
  /\ UNCHANGED <<input, s, lineContinue, lastProperty, flags, exc, out, direct>>

\* IsContinued when no line is taken for a continued one
IsContinued_never(ln) == FALSE

IsContinued(ln) == Match(_re_comments, ln) = <<>> /\ EndsWith(ln, " _\n")

\* a physical line ending with ` _` is kept for the next one
LineContinue ==
  /\ pc = "for"
  /\ ln_i <= Len(code_lines)
  /\ LET ln == code_lines[ln_i]
     IN /\ IsContinued(ln)
        /\ s' = IF lineContinue THEN s \o Slice(ln, 1, Len(ln) - 1)
                ELSE Slice(ln, 1, Len(ln) - 1)
  /\ lineContinue' = TRUE
  /\ Continue
  /\ UNCHANGED <<input, elems, target_elem, lastProperty, flags, exc, out, direct>>

\* a physical line that completes the logical line s
LineComplete ==
  /\ pc = "for"
  /\ ln_i <= Len(code_lines)
  /\ LET ln == code_lines[ln_i]
     IN /\ ~IsContinued(ln)
        /\ s' = IF lineContinue THEN s \o ln ELSE ln
  /\ lineContinue' = FALSE
  /\ pc' = "doxy"
  /\ UNCHANGED <<input, ln_i, elems, target_elem, lastProperty, flags, exc, out, direct>>

\* the for loop is exhausted: parse returns CodeParseResult(root_elem)
ParseReturn ==
  /\ pc = "for"
  /\ ln_i > Len(code_lines)
  /\ pc' = "parsed"
  /\ UNCHANGED <<input, ln_i, s, lineContinue, elems, target_elem, lastProperty,
                 flags, exc, out, direct>>

\* AfterDoxy with the tests of the block scanners left out
AfterDoxy_without_scanners == IF IsCls THEN "find_property_get" ELSE "find_type"

\* where the loop goes when the line is no documentation comment
AfterDoxy ==
  IF inTypeSearch THEN "process_type"
  ELSE IF inSubSearch THEN "process_sub"
  ELSE IF inFunctionSearch THEN "process_function"
  ELSE IF IsCls /\ inPropertySearch THEN "process_property"
  ELSE IF inEnumSearch THEN "process_enum"
  ELSE IF IsCls THEN "find_property_get"
  ELSE "find_type"

FoundDoxyComment ==
  /\ pc = "doxy"
  /\ \E r \in {_found_doxy_comment(elems, s, target_elem)} :
        /\ elems' = r.es
        /\ IF r.found THEN Continue ELSE pc' = AfterDoxy /\ ln_i' = ln_i
  /\ UNCHANGED <<input, s, lineContinue, target_elem, lastProperty, flags, exc, out, direct>>

ProcessType ==
  /\ pc = "process_type"
  /\ \E r \in {_process_type(elems, s, target_elem)} :
        inTypeSearch' = r.active /\ elems' = r.es /\ target_elem' = r.target
  /\ Continue
  /\ UNCHANGED <<input, s, lineContinue, lastProperty, inSubSearch, inFunctionSearch,
                 inEnumSearch, inPropertySearch, exc, out, direct>>

ProcessSub ==
  /\ pc = "process_sub"
  /\ \E r \in {_process_sub(elems, s, target_elem)} :
        inSubSearch' = r.active /\ target_elem' = r.target
  /\ Continue
  /\ UNCHANGED <<input, s, lineContinue, elems, lastProperty, inTypeSearch,
                 inFunctionSearch, inEnumSearch, inPropertySearch, exc, out, direct>>

ProcessFunction ==
  /\ pc = "process_function"
  /\ \E r \in {_process_function(elems, s, target_elem)} :
        inFunctionSearch' = r.active /\ target_elem' = r.target
  /\ Continue
  /\ UNCHANGED <<input, s, lineContinue, elems, lastProperty, inTypeSearch,
                 inSubSearch, inEnumSearch, inPropertySearch, exc, out, direct>>

ProcessProperty ==
  /\ pc = "process_property"
  /\ \E r \in {_process_property(elems, s, target_elem)} :
        inPropertySearch' = r.active /\ target_elem' = r.target
  /\ Continue
  /\ UNCHANGED <<input, s, lineContinue, elems, lastProperty, inTypeSearch,
                 inSubSearch, inFunctionSearch, inEnumSearch, exc, out, direct>>

ProcessEnum ==
  /\ pc = "process_enum"
  /\ \E r \in {_process_enum(elems, s, target_elem)} :
        inEnumSearch' = r.active /\ elems' = r.es /\ target_elem' = r.target
  /\ Continue
  /\ UNCHANGED <<input, s, lineContinue, lastProperty, inTypeSearch, inSubSearch,
                 inFunctionSearch, inPropertySearch, exc, out, direct>>

\* an exception leaves parse: nothing is returned
ParseRaise(e) ==
  /\ pc' = "parse_raised"
  /\ exc' = e
  /\ UNCHANGED <<ln_i, elems, target_elem, lastProperty, inPropertySearch>>

FindPropertyGet ==
  /\ pc = "find_property_get"
  /\ \E r \in {_find_property_get(elems, s, target_elem, lastProperty)} :
        IF r.exc # "" THEN ParseRaise(r.exc)
        ELSE /\ elems' = r.es /\ target_elem' = r.target /\ lastProperty' = r.last
             /\ exc' = exc
             /\ IF r.found THEN inPropertySearch' = TRUE /\ Continue
                ELSE /\ pc' = "find_property_set"
                     /\ UNCHANGED <<ln_i, inPropertySearch>>
  /\ UNCHANGED <<input, s, lineContinue, inTypeSearch, inSubSearch, inFunctionSearch,
                 inEnumSearch, out, direct>>

FindPropertySet ==
  /\ pc = "find_property_set"
  /\ \E r \in {_find_property_set(elems, s, target_elem, lastProperty)} :
        IF r.exc # "" THEN ParseRaise(r.exc)
        ELSE /\ elems' = r.es /\ target_elem' = r.target /\ lastProperty' = r.last
             /\ exc' = exc
             /\ IF r.found THEN inPropertySearch' = TRUE /\ Continue
                ELSE /\ pc' = "find_type"
                     /\ UNCHANGED <<ln_i, inPropertySearch>>
  /\ UNCHANGED <<input, s, lineContinue, inTypeSearch, inSubSearch, inFunctionSearch,
                 inEnumSearch, out, direct>>

FindType ==
  /\ pc = "find_type"
  /\ \E r \in {_find_type(elems, s, target_elem)} :
        /\ elems' = r.es /\ target_elem' = r.target
        /\ IF r.found THEN inTypeSearch' = TRUE /\ Continue
           ELSE pc' = "found_member" /\ UNCHANGED <<ln_i, inTypeSearch>>
  /\ UNCHANGED <<input, s, lineContinue, lastProperty, inSubSearch, inFunctionSearch,
                 inEnumSearch, inPropertySearch, exc, out, direct>>

FoundMember ==
  /\ pc = "found_member"
  /\ \E r \in {_found_member(elems, s, target_elem)} :
        /\ elems' = r.es
        /\ IF r.found THEN Continue
           ELSE pc' = "find_function" /\ ln_i' = ln_i
  /\ UNCHANGED <<input, s, lineContinue, target_elem, lastProperty, flags, exc, out, direct>>

FindFunction ==
  /\ pc = "find_function"
  /\ \E r \in {_find_function(elems, s, target_elem)} :
        /\ elems' = r.es /\ target_elem' = r.target
        /\ IF r.found THEN inFunctionSearch' = TRUE /\ Continue
           ELSE pc' = "find_sub" /\ UNCHANGED <<ln_i, inFunctionSearch>>
  /\ UNCHANGED <<input, s, lineContinue, lastProperty, inTypeSearch, inSubSearch,
                 inEnumSearch, inPropertySearch, exc, out, direct>>

FindSub ==
  /\ pc = "find_sub"
  /\ \E r \in {_find_sub(elems, s, target_elem)} :
        /\ elems' = r.es /\ target_elem' = r.target
        /\ IF r.found THEN inSubSearch' = TRUE /\ Continue
           ELSE pc' = "find_enum" /\ UNCHANGED <<ln_i, inSubSearch>>
  /\ UNCHANGED <<input, s, lineContinue, lastProperty, inTypeSearch, inFunctionSearch,
                 inEnumSearch, inPropertySearch, exc, out, direct>>

\* the last call of the loop body: found or not, the loop goes on
FindEnum ==
  /\ pc = "find_enum"
  /\ \E r \in {_find_enum(elems, s, target_elem)} :
        /\ elems' = r.es /\ target_elem' = r.target
        /\ inEnumSearch' = (r.found \/ inEnumSearch)
  /\ Continue
  /\ UNCHANGED <<input, s, lineContinue, lastProperty, inTypeSearch, inSubSearch,
                 inFunctionSearch, inPropertySearch, exc, out, direct>>

\* main.py hands the result of parse to generate; the root is Element 1
Generate ==
  /\ pc = "parsed"
  /\ \E r \in {generate(elems, 1)} :
        /\ out' = r.lines
        /\ exc' = r.exc
        /\ pc' = IF r.exc # "" THEN "generate_raised" ELSE "generated"
  /\ UNCHANGED <<input, ln_i, s, lineContinue, elems, target_elem, lastProperty,
                 flags, direct>>

Next ==
  \/ ParseCls
  \/ ParseBas
  \/ LineContinue
  \/ LineComplete
  \/ ParseReturn
  \/ FoundDoxyComment
  \/ ProcessType
  \/ ProcessSub
  \/ ProcessFunction
  \/ ProcessProperty
  \/ ProcessEnum
  \/ FindPropertyGet
  \/ FindPropertySet
  \/ FindType
  \/ FoundMember
  \/ FindFunction
  \/ FindSub
  \/ FindEnum
  \/ Generate

-----------------------------------------------------------------------------
(* The files the pipeline is run on: a few declarations one after another. *)

MaxPropertyUnits == 3
MaxDeclUnits == 2

PropertyUnits ==
  { <<"Public Property Get X() As Integer\n", "End Property\n">>,
    <<"Private Property Let X(ByVal v As String)\n", "End Property\n">>,
    <<"Property Get Y() As Long\n", "End Property\n">>,
    <<"Property Set X()\n", "End Property\n">> }

DeclUnits ==
  { <<"Public v As Integer\n">>,
    <<"Private Type T\n", "  x As Integer\n", "  y(3) As String\n", "Dim z As Long\n",
      "End Type\n">>,
    <<"Public Function Add(ByVal a As Integer, ByVal b As Integer) As Integer\n",
      "  Add = a + b\n", "End Function\n">>,
    <<"Private Sub S( _\n", "x)\n", "End Sub\n">>,
    <<"Public Enum E\n", "  A = 1\n", "  B\n", "End Enum\n">>,
    <<"'* brief\n">>,
    <<"Attribute VB_Name = \"Foo\"\n">>,
    <<"'! module doc\n", "'# Interface\n", "Implements IBar\n">> }

RECURSIVE Flatten(_)
Flatten(units) == IF units = <<>> THEN <<>> ELSE Head(units) \o Flatten(Tail(units))

Files(units, n) == {Flatten(us) : us \in UNION {[1..k -> units] : k \in 0..n}}

PropertyFiles == Files(PropertyUnits, MaxPropertyUnits)
DeclFiles == Files(DeclUnits, MaxDeclUnits)

Init == \E mt \in Vb6ModuleType, lines \in PropertyFiles \cup DeclFiles : Start(mt, lines)

Spec == Init /\ [][Next]_vars

-----------------------------------------------------------------------------
(* Direct calls of the parser's methods, as the unit tests make them: one   *)
(* method is called once on a line, with a fresh CLASS Element as scope.    *)
(* call is the call made, ret what the method returned.                     *)

MaxArgs == 2

AccessKeywords == {"", "Public ", "Private ", "Friend ", "Global ", "Static ", "Dim "}
FuncAccessKeywords == {"", "Public ", "Private ", "Friend ", "Static "}
Comments == {"", " ' note"}

\* [access] [Const] name[(dims)] [As Type] [= literal]; Dim stands in for the
\* access keyword and is not followed by Const, and a line with no keyword at
\* all is a record member and has its type
MemberDecls ==
  { d \in [access : AccessKeywords, const : {"", "Const "}, name : {"v"},
           dims : {"", "(3)"}, type : {"", " As Integer", " As String"},
           lit : {"", " = 5", " = &HFF", " = \"a\"\"b\""}, comment : Comments] :
      /\ d.access = "Dim " => d.const = ""
      /\ (d.access = "" /\ d.const = "") => d.type # "" }

MemberLine(d) == d.access \o d.const \o d.name \o d.dims \o d.type \o d.lit \o d.comment

\* lines that declare no field and no constant
NonMemberLines ==
  {"", "End Sub", "  Add = a + b", "Public Sub S()", "Public Function F() As Integer",
   "Private Type T", "Public Enum E", "' note"}

\* lines that open no function and no subroutine
NonOpenerLines ==
  {"", "End Function", "End Sub", "  Add = a + b", "Public v As Integer",
   "Private Type T", "Public Enum E", "' Function F()"}

ArgNames == <<"a", "b", "c", "d">>

\* [Optional] [ByVal] name [As Type] [= default]; the default is on Optional
\* only, and Optional is written with ByVal
ArgDecls(k) ==
  { d \in [opt : {"", "Optional "}, ref : {"", "ByVal "}, name : {ArgNames[k]},
           type : {"", " As Integer"}, default : {"", " = \"x,y\"", " = &HFF"}] :
      /\ d.opt = "" => d.default = ""
      /\ d.opt # "" => d.ref = "ByVal " }

\* the declarations a procedure opener is written with
FuncArgDecls(k) == {d \in ArgDecls(k) : d.ref = "ByVal " /\ d.type = " As Integer"}

ArgLine(d) == d.opt \o d.ref \o d.name \o d.type \o d.default

RECURSIVE ArgsLine(_)
ArgsLine(ds) ==
  IF ds = <<>> THEN ""
  ELSE IF Len(ds) = 1 THEN ArgLine(ds[1])
  ELSE ArgLine(ds[1]) \o ", " \o ArgsLine(Tail(ds))

\* the lists of 0..n declarations, the k-th named ArgNames[k]
ArgLists(decls(_), n) ==
  UNION {{ds \in [1..k -> UNION {decls(j) : j \in 1..k}] :
            \A j \in 1..k : ds[j] \in decls(j)} : k \in 0..n}

\* argument lists that are not a list of declarations
RawArgsStrings == {"a b", "a,", ",a", "a, ,b", "x = 1,2", "a(1,2) As Integer", "()", " "}

ProcDecls ==
  [access : FuncAccessKeywords, name : {"Add"}, args : ArgLists(FuncArgDecls, MaxArgs),
   ret : {"", " As Integer", " As Integer()"}, comment : Comments]

FunctionLine(d) ==
  d.access \o "Function " \o d.name \o "(" \o ArgsLine(d.args) \o ")" \o d.ret \o d.comment

\* a subroutine has no return type
SubLine(d) == d.access \o "Sub " \o d.name \o "(" \o ArgsLine(d.args) \o ")" \o d.comment

Fresh == <<CodeElement("", "CLASS")>>

\* the calls: the method, the declaration the line is written from (none for
\* a line that is no declaration) and the line
MemberCalls ==
  {[op |-> "_found_member", decl |-> <<d>>, line |-> MemberLine(d)] : d \in MemberDecls}
  \cup {[op |-> "_found_member", decl |-> <<>>, line |-> l] : l \in NonMemberLines}

FunctionCalls ==
  {[op |-> "_find_function", decl |-> <<d>>, line |-> FunctionLine(d)] : d \in ProcDecls}
  \cup {[op |-> "_find_function", decl |-> <<>>, line |-> l] : l \in NonOpenerLines}

SubCalls ==
  {[op |-> "_find_sub", decl |-> <<[d EXCEPT !.ret = ""]>>, line |-> SubLine(d)] :
     d \in ProcDecls}
  \cup {[op |-> "_find_sub", decl |-> <<>>, line |-> l] : l \in NonOpenerLines}

ArgsCalls ==
  {[op |-> "_build_args_list", decl |-> ds, line |-> ArgsLine(ds)] :
     ds \in ArgLists(ArgDecls, MaxArgs) \ {<<>>}}
  \cup {[op |-> "_build_args_list", decl |-> <<>>, line |-> l] : l \in RawArgsStrings}

\* one declaration with each way of passing (none, ByVal, ByRef, lower case)
\* and each kind of default: none, empty string, string with a doubled
\* quote, the string `default`, number
DefaultDecls ==
  { d \in [opt : {"", "Optional "}, ref : {"", "ByVal ", "ByRef ", "byval "},
           name : {ArgNames[1]}, type : {"", " As String"},
           default : {"", " = \"\"", " = \"a\"\"b\"", " = \"default\"", " = 1"}] :
      d.opt = "" => d.default = "" }

DefaultCalls ==
  {[op |-> "_build_args_list", decl |-> <<d>>, line |-> ArgLine(d)] : d \in DefaultDecls}

\* the test has made its parser and its scope and is about to call
\* the lines of an Enum block: a member name, with or without a value (decimal,
\* negative, hexadecimal), indented or not, with or without a trailing comment
EnumMemberNames == {"A", "Max_1"}
EnumMemberValues == {"", "1", "-1", "&HFF"}
EnumDecls ==
  [indent : {"", "  "}, name : EnumMemberNames, value : EnumMemberValues,
   comment : Comments]
EnumLine(d) ==
  d.indent \o d.name \o (IF d.value = "" THEN "" ELSE " = " \o d.value)
    \o d.comment \o "\n"

\* the scope inside an Enum block: the ENUM Element _find_enum appended to a
\* class, which is the target Element while the block is scanned
InEnum ==
  ChildsAppend(Fresh, 1, [CodeElement("E", "ENUM") EXCEPT !.accessibility = "PUBLIC"])

EnumCalls ==
  {[op |-> "_process_enum", decl |-> <<d>>, line |-> EnumLine(d)] : d \in EnumDecls}
    \cup {[op |-> "_process_enum", decl |-> <<>>, line |-> l] :
            l \in {"End Enum\n", "\n"}}

InitCall ==
  /\ call \in MemberCalls \cup FunctionCalls \cup SubCalls \cup ArgsCalls \cup EnumCalls
              \cup DefaultCalls
  /\ module_type = "CLASS"
  /\ code_lines = <<>>
  /\ pc = "idle"
  /\ ln_i = 0
  /\ s = ""
  /\ lineContinue = FALSE
  /\ elems = IF call.op = "_process_enum" THEN InEnum ELSE Fresh
  /\ target_elem = Len(elems)
  /\ lastProperty = 0
  /\ inTypeSearch = FALSE
  /\ inSubSearch = FALSE
  /\ inFunctionSearch = FALSE
  /\ inEnumSearch = FALSE
  /\ inPropertySearch = FALSE
  /\ exc = ""
  /\ out = <<>>
  /\ ret = NoRet

\* what every direct call leaves alone
Called ==
  /\ pc' = "called"
  /\ s' = call.line
  /\ UNCHANGED <<input, ln_i, lineContinue, lastProperty, flags, exc, out, call>>

CallFoundMember ==
  /\ pc = "idle" /\ call.op = "_found_member"
  /\ \E r \in {_found_member(elems, call.line, target_elem)} :
        elems' = r.es /\ ret' = [found |-> r.found]
  /\ Called
  /\ UNCHANGED target_elem

CallFindFunction ==
  /\ pc = "idle" /\ call.op = "_find_function"
  /\ \E r \in {_find_function(elems, call.line, target_elem)} :
        elems' = r.es /\ target_elem' = r.target /\ ret' = [found |-> r.found]
  /\ Called

CallFindSub ==
  /\ pc = "idle" /\ call.op = "_find_sub"
  /\ \E r \in {_find_sub(elems, call.line, target_elem)} :
        elems' = r.es /\ target_elem' = r.target /\ ret' = [found |-> r.found]
  /\ Called

\* _build_args_list returns a list and touches no Element
CallBuildArgsList ==
  /\ pc = "idle" /\ call.op = "_build_args_list"
  /\ \E r \in {_build_args_list(call.line)} :
        ret' = [found |-> TRUE, args |-> r]
  /\ Called
  /\ UNCHANGED <<elems, target_elem>>

\* _process_enum on a line of an Enum block
CallProcessEnum ==
  /\ pc = "idle" /\ call.op = "_process_enum"
  /\ \E r \in {_process_enum(elems, call.line, target_elem)} :
        elems' = r.es /\ target_elem' = r.target /\ ret' = [found |-> r.active]
  /\ Called

\* _generate_enum on the ENUM Element the line was read into
CallGenerateEnum ==
  /\ pc = "called" /\ call.op = "_process_enum"
  /\ \E r \in {_generate_enum(elems, <<>>, 0, elems[2])} :
        out' = r.lines /\ exc' = r.exc
  /\ pc' = "rendered"
  /\ UNCHANGED <<input, ln_i, s, lineContinue, elems, target_elem, lastProperty,
                 flags, call, ret>>

NextCall ==
  \/ CallFoundMember
  \/ CallFindFunction
  \/ CallFindSub
  \/ CallBuildArgsList
  \/ CallProcessEnum
  \/ CallGenerateEnum

SpecCall == InitCall /\ [][NextCall]_vars

-----------------------------------------------------------------------------
(* Direct calls of the generator's methods on one PROPERTY Element, with    *)
(* the lines generated so far in out.                                       *)

MaxPropertyArgs == 2
MaxIndent == 1

\* the PROPERTY Elements: every shape of return type and argument count
PropertyElems ==
  { [CodeElement("X", "PROPERTY") EXCEPT
       !.return_type = rt, !.accessibility = a, !.is_static = st,
       !.arguments = [k \in 1..n |-> CodeElementArgument("v", "Integer")]] :
      rt \in {"void", "", None, "Integer", "String"},
      a \in {"PUBLIC", "PRIVATE", "UNDEF"},
      st \in BOOLEAN,
      n \in 0..MaxPropertyArgs }

GenCalls ==
  [op : {"_get_getset_str", "_generate_property", "_generate_common"},
   indent : 0..MaxIndent, lines : {<<>>, <<"namespace N", "{">>}]

\* the CONST Elements: plain and string values, with quotes, backslashes and
\* control characters in them
ConstValues == {"", "1", "Hi \"there\"", "a\\b\tc", "l1\nl2\r\f"}
ConstElems ==
  { [CodeElement("Greeting", "CONST") EXCEPT
       !.return_type = rt, !.accessibility = a, !.value = v, !.is_str = q] :
      rt \in {"String", "Integer"},
      a \in {"PUBLIC", "PRIVATE", "UNDEF"},
      v \in ConstValues,
      q \in BOOLEAN }

ConstCalls ==
  [op : {"_generate_const"}, indent : 0..MaxIndent,
   lines : {<<>>, <<"namespace N", "{">>}]

\* the values of _get_value_str by code point: the ten characters of
\* _replacements, "A" and the space
MaxValueLen == 2
ValueOrds == {92, 34, 0, 7, 8, 12, 10, 13, 9, 11, 65, 32}
ValueCalls ==
  { [op |-> "_get_value_str", indent |-> 0, lines |-> <<>>, ords |-> cs, is_str |-> q] :
      cs \in UNION {[1..n -> ValueOrds] : n \in 0..MaxValueLen}, q \in BOOLEAN }

\* the FUNC Elements: up to MaxFuncArgs arguments, each by value or by
\* reference, required or optional with the default 1
MaxFuncArgs == 2
FuncArguments(n) ==
  [1..n -> [is_reference : BOOLEAN, is_optional : BOOLEAN]]
FuncElems ==
  { [CodeElement("Add", "FUNC") EXCEPT
       !.return_type = rt, !.accessibility = a, !.is_static = st,
       !.arguments = [k \in 1..Len(f) |->
          [CodeElementArgument(ArgNames[k], "TestClass") EXCEPT
             !.is_reference = f[k].is_reference, !.is_optional = f[k].is_optional,
             !.default_value = "1"]]] :
      rt \in {"void", "Integer"},
      a \in {"PUBLIC", "PRIVATE"},
      st \in BOOLEAN,
      f \in UNION {FuncArguments(n) : n \in 0..MaxFuncArgs} }

FuncCalls ==
  [op : {"_generate_func"}, indent : 0..MaxIndent,
   lines : {<<>>, <<"namespace N", "{">>}, as_intf : BOOLEAN]

\* the trees of generate: chains of up to MaxDepth Elements, each the only
\* child of the one before; the last is of any of these kinds and the others
\* are of the kinds that are rendered as blocks
MaxDepth == 3
BlockKinds == {"NAME_SPACE", "CLASS", "INTERFACE", "STRUCT", "ENUM", "FUNC"}
LeafKinds == {"DOC_COMMENT_MULTI", "DOC_COMMENT_LINE", "OTHER", "VAR"}
Chains ==
  UNION { {k \in [1..n -> BlockKinds \cup LeafKinds] :
             \A i \in 1..(n - 1) : k[i] \in BlockKinds} : n \in 1..MaxDepth }
ChainTree(k) ==
  [i \in 1..Len(k) |->
     [CodeElement(ArgNames[i], k[i]) EXCEPT
        !.return_type = "Integer", !.accessibility = "PUBLIC", !.value = "text",
        !.parent = i - 1,
        !.childs = IF i < Len(k) THEN <<i + 1>> ELSE <<>>]]

TreeCalls == [op : {"generate"}, indent : {0}, lines : {<<>>}]

\* the CLASS and INTERFACE Elements with every combination of the keys
\* `super`, `extends` and `implements` in others
OthersLists ==
  { <<"super", <<"Base">>>>, <<"extends", <<"Base", "Base2">>>>,
    <<"implements", <<"IBar", "IBaz">>>> }
TypeElems(kind) ==
  { [CodeElement("Foo", kind) EXCEPT !.accessibility = "PUBLIC", !.others = o] :
      o \in SUBSET OthersLists }
TypeCalls == [op : {"_generate_class", "_generate_intf"}, indent : {0}, lines : {<<>>}]

\* the trees a call is made on
GenTrees(c) ==
  CASE c.op = "_generate_const" -> {<<e>> : e \in ConstElems}
    [] c.op = "generate" -> {ChainTree(k) : k \in Chains}
    [] c.op = "_generate_func" -> {<<e>> : e \in FuncElems}
    [] c.op = "_get_value_str" -> {<<>>}
    [] c.op = "_generate_class" -> {<<e>> : e \in TypeElems("CLASS")}
    [] c.op = "_generate_intf" -> {<<e>> : e \in TypeElems("INTERFACE")}
    [] OTHER -> {<<e>> : e \in PropertyElems}

InitGen ==
  /\ module_type = "CLASS"
  /\ code_lines = <<>>
  /\ pc = "idle"
  /\ ln_i = 0
  /\ s = ""
  /\ lineContinue = FALSE
  /\ call \in GenCalls \cup ConstCalls \cup ValueCalls \cup FuncCalls \cup TreeCalls
              \cup TypeCalls
  /\ elems \in GenTrees(call)
  /\ target_elem = IF elems = <<>> THEN 0 ELSE 1
  /\ lastProperty = 0
  /\ inTypeSearch = FALSE
  /\ inSubSearch = FALSE
  /\ inFunctionSearch = FALSE
  /\ inEnumSearch = FALSE
  /\ inPropertySearch = FALSE
  /\ exc = ""
  /\ out = call.lines
  /\ ret = NoRet

\* a generator that would detach every child collection while it walks
Generated_detaching_childs ==
  /\ pc' = "called"
  /\ elems' = [i \in DOMAIN elems |-> [elems[i] EXCEPT !.childs = <<>>]]
  /\ UNCHANGED <<input, ln_i, s, lineContinue, target_elem, lastProperty,
                 flags, call>>

\* what a call of the generator leaves alone
Generated ==
  /\ pc' = "called"
  /\ UNCHANGED <<input, ln_i, s, lineContinue, elems, target_elem, lastProperty,
                 flags, call>>

CallGetGetsetStr ==
  /\ pc = "idle" /\ call.op = "_get_getset_str"
  /\ \E r \in {_get_getset_str(elems[target_elem])} :
        exc' = r.exc /\ ret' = [found |-> r.exc = "", str |-> r.str]
  /\ Generated
  /\ UNCHANGED out

CallGenerateProperty ==
  /\ pc = "idle" /\ call.op = "_generate_property"
  /\ \E r \in {_generate_property(out, call.indent, elems[target_elem])} :
        exc' = r.exc /\ out' = r.lines
  /\ Generated
  /\ UNCHANGED ret

CallGenerateCommon ==
  /\ pc = "idle" /\ call.op = "_generate_common"
  /\ \E r \in {_generate_common(elems, out, call.indent, target_elem, FALSE)} :
        exc' = r.exc /\ out' = r.lines
  /\ Generated
  /\ UNCHANGED ret

CallGenerateConst ==
  /\ pc = "idle" /\ call.op = "_generate_const"
  /\ \E r \in {_generate_const(out, call.indent, elems[target_elem])} :
        exc' = r.exc /\ out' = r.lines
  /\ Generated
  /\ UNCHANGED ret

\* _get_value_str returns a text and appends no line
CallGetValueStr ==
  /\ pc = "idle" /\ call.op = "_get_value_str"
  /\ ret' = [found |-> TRUE, ords |-> _get_value_ords(call.ords, call.is_str)]
  /\ Generated
  /\ UNCHANGED <<exc, out>>

CallGenerateFunc ==
  /\ pc = "idle" /\ call.op = "_generate_func"
  /\ \E r \in {_generate_func(out, call.indent, elems[target_elem], call.as_intf)} :
        exc' = r.exc /\ out' = r.lines
  /\ Generated
  /\ UNCHANGED ret

\* generate on a tree: the caller gets the lines, or the exception and no line
CallGenerate ==
  /\ pc = "idle" /\ call.op = "generate"
  /\ \E r \in {generate(elems, target_elem)} :
        exc' = r.exc /\ out' = r.lines
  /\ Generated
  /\ UNCHANGED ret

CallGenerateClass ==
  /\ pc = "idle" /\ call.op = "_generate_class"
  /\ \E r \in {_generate_class(elems, out, call.indent, elems[target_elem])} :
        exc' = r.exc /\ out' = r.lines
  /\ Generated
  /\ UNCHANGED ret

CallGenerateIntf ==
  /\ pc = "idle" /\ call.op = "_generate_intf"
  /\ \E r \in {_generate_intf(elems, out, call.indent, elems[target_elem])} :
        exc' = r.exc /\ out' = r.lines
  /\ Generated
  /\ UNCHANGED ret

NextGen ==
  \/ CallGenerateClass
  \/ CallGenerateIntf
  \/ CallGenerate
  \/ CallGenerateFunc
  \/ CallGetGetsetStr
  \/ CallGenerateProperty
  \/ CallGenerateCommon
  \/ CallGenerateConst
  \/ CallGetValueStr

SpecGen == InitGen /\ [][NextGen]_vars

-----------------------------------------------------------------------------
(* codeconv.py: the operations of CodeElementList on the child collections *)
(* of the first NumLists of NumElems Elements, in any order. An Element is  *)
(* its index in elems and a collection is the childs of its parent, so that *)
(* one Element can be held by several collections, as a Python reference    *)
(* can.                                                                     *)

NumElems == 3
NumLists == 2
MaxChilds == 2

\* the position, from 1, of the index key of a Python list of n items, and 0
\* when the index is out of range
Position(n, key) ==
  IF key >= 0 /\ key < n THEN key + 1
  ELSE IF key < 0 /\ key >= -n THEN n + key + 1
  ELSE 0

\* CodeElementList.append
append(es, l, value) ==
  [es EXCEPT ![value].parent = l, ![l].childs = Append(@, value)]

\* CodeElementList.insert: list.insert puts the value before the position of
\* index, clamped to the ends of the list
insert(es, l, index, value) ==
  LET n == Len(es[l].childs)
      before == IF index < 0 THEN (IF n + index < 0 THEN 0 ELSE n + index)
                ELSE (IF index > n THEN n ELSE index)
  IN [es EXCEPT ![value].parent = l,
                ![l].childs = SubSeq(@, 1, before) \o <<value>> \o SubSeq(@, before + 1, n)]

\* CodeElementList.__setitem__: the parent of value is set before the item is
\* assigned, and the item assignment raises IndexError out of range
__setitem__(es, l, key, value) ==
  LET k == Position(Len(es[l].childs), key)
      parented == [es EXCEPT ![value].parent = l]
  IN IF k = 0 THEN [exc |-> "IndexError", es |-> parented]
     ELSE [exc |-> "", es |-> [parented EXCEPT ![l].childs[k] = value]]

\* CodeElementList.__delitem__: reading the item raises IndexError out of range
__delitem__(es, l, key) ==
  LET n == Len(es[l].childs)
      k == Position(n, key)
  IN IF k = 0 THEN [exc |-> "IndexError", es |-> es]
     ELSE [exc |-> "",
           es |-> [es EXCEPT ![es[l].childs[k]].parent = 0,
                             ![l].childs = SubSeq(@, 1, k - 1) \o SubSeq(@, k + 1, n)]]

\* CodeElementList.clear
clear(es, l) ==
  [i \in 1..Len(es) |->
     IF i = l THEN [es[i] EXCEPT !.parent = IF \E k \in 1..Len(es[l].childs) : es[l].childs[k] = i
                                            THEN 0 ELSE @,
                                 !.childs = <<>>]
     ELSE IF \E k \in 1..Len(es[l].childs) : es[l].childs[k] = i
     THEN [es[i] EXCEPT !.parent = 0]
     ELSE es[i]]

\* the Elements a collection holds
Members(es, l) == {es[l].childs[k] : k \in 1..Len(es[l].childs)}

InitList ==
  /\ module_type = "CLASS"
  /\ code_lines = <<>>
  /\ pc = "idle"
  /\ ln_i = 0
  /\ s = ""
  /\ lineContinue = FALSE
  /\ elems = [i \in 1..NumElems |-> CodeElement(ArgNames[i], "OTHER")]
  /\ target_elem = 1
  /\ lastProperty = 0
  /\ inTypeSearch = FALSE
  /\ inSubSearch = FALSE
  /\ inFunctionSearch = FALSE
  /\ inEnumSearch = FALSE
  /\ inPropertySearch = FALSE
  /\ exc = ""
  /\ out = <<>>
  /\ call = NoCall
  /\ ret = NoRet

\* what an operation on a collection leaves alone; removed is the set of
\* Elements the operation took out of the collection
ListCalled(c, removed) ==
  /\ pc' = "called"
  /\ call' = c
  /\ ret' = [found |-> TRUE, removed |-> removed]
  /\ UNCHANGED <<input, ln_i, s, lineContinue, target_elem, lastProperty, flags, out>>

ListAppend ==
  \E l \in 1..NumLists, value \in 1..NumElems :
    /\ Len(elems[l].childs) < MaxChilds
    /\ elems' = append(elems, l, value)
    /\ exc' = ""
    /\ ListCalled([op |-> "append", list |-> l, value |-> value], {})

ListInsert ==
  \E l \in 1..NumLists, index \in -MaxChilds..MaxChilds, value \in 1..NumElems :
    /\ Len(elems[l].childs) < MaxChilds
    /\ elems' = insert(elems, l, index, value)
    /\ exc' = ""
    /\ ListCalled([op |-> "insert", list |-> l, index |-> index, value |-> value], {})

ListSetItem ==
  \E l \in 1..NumLists, key \in -MaxChilds..MaxChilds, value \in 1..NumElems :
    \E r \in {__setitem__(elems, l, key, value)} :
      /\ elems' = r.es
      /\ exc' = r.exc
      /\ ListCalled([op |-> "__setitem__", list |-> l, key |-> key, value |-> value],
                    IF r.exc = "" THEN Members(elems, l) \ Members(r.es, l) ELSE {})

ListDelItem ==
  \E l \in 1..NumLists, key \in -MaxChilds..MaxChilds :
    \E r \in {__delitem__(elems, l, key)} :
      /\ elems' = r.es
      /\ exc' = r.exc
      /\ ListCalled([op |-> "__delitem__", list |-> l, key |-> key],
                    IF r.exc = "" THEN Members(elems, l) \ Members(r.es, l) ELSE {})

ListClear ==
  \E l \in 1..NumLists :
    /\ elems' = clear(elems, l)
    /\ exc' = ""
    /\ ListCalled([op |-> "clear", list |-> l], Members(elems, l))

NextList ==
  \/ ListAppend
  \/ ListInsert
  \/ ListSetItem
  \/ ListDelItem
  \/ ListClear

SpecList == InitList /\ [][NextList]_vars

-----------------------------------------------------------------------------
(* The pipeline on files that hold header lines, or one block: its opener, *)
(* body lines, a closing line written flush left, indented or with a       *)
(* trailing comment, and the opener of a second block after it, or a whole *)
(* property setter that a getter before it is paired with.                 *)

MaxHeaderLines == 2
MaxBodyLines == 1

HeaderLines ==
  {"'! first\n", "  '! second\n", "Attribute VB_Name = \"Foo\"\n",
   "Attribute VB_Name = \"Bar\" ' renamed\n", "'# Interface\n", "'* brief\n"}

Procedures ==
  { [keyword |-> "Sub", opener |-> <<"Public Sub S( _\n", "  ByVal x As Long)\n">>],
    [keyword |-> "Function", opener |-> <<"Function F() As Long\n">>],
    [keyword |-> "Function",
     opener |-> <<"Function F(Optional ByVal a As Integer = &HFF) As Long\n">>],
    [keyword |-> "Property", opener |-> <<"Property Get P() As Long\n">>],
    [keyword |-> "Property", opener |-> <<"Property Let P(ByVal v As Long)\n">>] }

Blocks ==
  Procedures \cup
  { [keyword |-> "Type", opener |-> <<"Private Type T\n">>],
    [keyword |-> "Enum", opener |-> <<"Public Enum E\n">>] }

\* a local declaration and a documentation comment
BodyLines == {"  Dim t As Long\n", "  '* doc\n"}

\* the closing lines of a block
Closings(keyword) ==
  {"End " \o keyword \o "\n", "  End " \o keyword \o "\n",
   "End " \o keyword \o " ' done\n"}

Sequences(items, n) == UNION {[1..k -> items] : k \in 0..n}

BlockFiles(blocks) ==
  UNION { { b.opener \o body \o <<closing>> \o after :
              body \in Sequences(BodyLines, MaxBodyLines),
              closing \in Closings(b.keyword),
              after \in {<<>>, <<"Public Enum G\n">>,
                         <<"Property Let P(ByVal v As Long)\n",
                           "End Property\n">>} } : b \in blocks }

ScanFiles == Sequences(HeaderLines, MaxHeaderLines) \cup BlockFiles(Blocks)

InitScan == \E mt \in Vb6ModuleType, lines \in ScanFiles : Start(mt, lines)

SpecScan == InitScan /\ [][Next]_vars

-----------------------------------------------------------------------------
(* parse called on a file in which one declaration is split over            *)
(* continuation lines, and then, by a second parser of the same module      *)
(* kind, on the same file with the declaration written on one line (the     *)
(* form the unit tests give to a split declaration). ret keeps the tree of  *)
(* the first call.                                                          *)

\* how a continued line is indented
JoinIndent == "    "

\* a declaration in pieces (written on one line it is the pieces one after
\* another), the lines before it and the lines after it
JoinUnits ==
  { [before |-> <<>>,
     pieces |-> <<"Public Sub S(", "ByVal x As Long, ", "Optional y As String = \"\")\n">>,
     rest |-> <<"End Sub\n">>],
    [before |-> <<>>,
     pieces |-> <<"Function F(ByVal x As Long) ", "As ", "Long\n">>,
     rest |-> <<"'* doc\n", "End Function\n">>],
    [before |-> <<>>,
     pieces |-> <<"Public Property Get P() ", "As Long\n">>,
     rest |-> <<"End Property\n">>],
    [before |-> <<>>,
     pieces |-> <<"Private ", "Type T\n">>,
     rest |-> <<"End Type\n">>],
    [before |-> <<"Private Type T\n">>,
     pieces |-> <<"  x As ", "Integer\n">>,
     rest |-> <<"End Type\n">>],
    [before |-> <<"Public Enum E\n">>,
     pieces |-> <<"  A = ", "1\n">>,
     rest |-> <<"End Enum\n">>],
    [before |-> <<"Public v As Integer\n">>,
     pieces |-> <<"Private Const c As String = ", "\"a\"\n">>,
     rest |-> <<>>],
    [before |-> <<>>,
     pieces |-> <<"Dim a As Long, ", "b ", "As String">>,
     rest |-> <<>>] }

\* str without the spaces at its end
RStripSpaces(str) ==
  LET idx == {i \in 1..Len(str) : Ch(str, i) # " "}
  IN IF idx = {} THEN "" ELSE SubSeq(str, 1, Max(idx))

\* the physical lines of pieces i.. when the line so far is cur and a
\* continuation marker and a line break are put in the gaps of the set gaps
RECURSIVE SplitLines(_, _, _, _)
SplitLines(pieces, gaps, i, cur) ==
  IF i > Len(pieces) THEN <<cur>>
  ELSE IF (i - 1) \in gaps
       THEN <<RStripSpaces(cur) \o " _\n">>
              \o SplitLines(pieces, gaps, i + 1, JoinIndent \o pieces[i])
       ELSE SplitLines(pieces, gaps, i + 1, cur \o pieces[i])

SplitFile(u, gaps) == u.before \o SplitLines(u.pieces, gaps, 2, u.pieces[1]) \o u.rest
OneLineFile(u) == SplitFile(u, {})

Gaps(u) == SUBSET (1..(Len(u.pieces) - 1)) \ {{}}

InitJoin ==
  \E mt \in Vb6ModuleType, u \in JoinUnits :
    \E gaps \in Gaps(u) : Start(mt, SplitFile(u, gaps))

\* the second call: a new parser of the same kind, the one-line file
ParseAgain ==
  /\ pc = "parsed"
  /\ ~ret.found
  /\ \E u \in JoinUnits :
       /\ \E gaps \in Gaps(u) : code_lines = SplitFile(u, gaps)
       /\ code_lines' = OneLineFile(u)
  /\ ret' = [found |-> TRUE, root |-> elems]
  /\ pc' = "start"
  /\ ln_i' = 0
  /\ s' = ""
  /\ lineContinue' = FALSE
  /\ elems' = <<>>
  /\ target_elem' = 0
  /\ lastProperty' = 0
  /\ inTypeSearch' = FALSE
  /\ inSubSearch' = FALSE
  /\ inFunctionSearch' = FALSE
  /\ inEnumSearch' = FALSE
  /\ inPropertySearch' = FALSE
  /\ UNCHANGED <<module_type, exc, out, call>>

NextJoin ==
  \/ Next
  \/ ParseAgain

SpecJoin == InitJoin /\ [][NextJoin]_vars

-----------------------------------------------------------------------------
(* Properties of the pipeline, checked under Spec.                          *)

\* C1: for every module kind and every file that declares no property,
\* generate on the result of parse returns its lines and does not raise.
C1_GenerateCompletes ==
  code_lines \in DeclFiles => pc # "generate_raised"

\* C2: for every module kind and every file, parse returns a result and never
\* raises; a Property Let/Set with an empty argument list and two Property Get
\* of one name in a row are among the files.
C2_ParseNeverRaises ==
  pc # "parse_raised"

\* C3: in a class or form module, when a Property Get and a Property Let/Set
\* share a name, the tree parse returns has exactly one PROPERTY Element of
\* that name, and the Element (return type, argument list, accessibility) is
\* the same whether the getter or the setter comes first.
C3_OnePropertyPerName ==
  (pc = "parsed" /\ IsCls) =>
    LET Contains(l, pat) ==
          \E k \in 1..(Len(l) - Len(pat) + 1) : SubSeq(l, k, k + Len(pat) - 1) = pat
        IsGet(l, n) == Contains(l, "Property Get " \o n \o "(")
        IsSet(l, n) == \/ Contains(l, "Property Let " \o n \o "(")
                       \/ Contains(l, "Property Set " \o n \o "(")
        Lines == {code_lines[i] : i \in DOMAIN code_lines}
        Props(n) == {e \in DOMAIN elems :
                       elems[e].elem_type = "PROPERTY" /\ elems[e].name = n}
        Shape(e) == <<e.return_type, e.arguments, e.accessibility>>
        GetFirst(g, t) == LET a == _find_property_get(Fresh, g, 1, 0)
                          IN _find_property_set(a.es, t, 1, a.last)
        SetFirst(g, t) == LET a == _find_property_set(Fresh, t, 1, 0)
                          IN _find_property_get(a.es, g, 1, a.last)
    IN \A n \in {"X", "Y"} : \A g \in Lines, t \in Lines :
         (IsGet(g, n) /\ IsSet(t, n)) =>
           /\ Cardinality(Props(n)) = 1
           /\ LET gf == GetFirst(g, t)
                  sf == SetFirst(g, t)
              IN (gf.exc = "" /\ sf.exc = "") =>
                   /\ Len(gf.es) = 2 /\ Len(sf.es) = 2
                   /\ Shape(gf.es[2]) = Shape(sf.es[2])

\* C4: the one PROPERTY Element a getter and a setter of one name are paired
\* into has the getter's declared return type as its return type and the
\* setter's value-argument type as the type of its only argument, also when the
\* two types differ and in both orders: Get X() As Integer with
\* Let X(ByVal v As String) gives return type Integer and one String argument.
C4_PairedTypes ==
  (/\ pc = "parsed" /\ IsCls
   /\ \E i \in DOMAIN code_lines : code_lines[i] = "Public Property Get X() As Integer\n"
   /\ \E i \in DOMAIN code_lines :
        code_lines[i] = "Private Property Let X(ByVal v As String)\n") =>
    LET Props == {e \in DOMAIN elems :
                    elems[e].elem_type = "PROPERTY" /\ elems[e].name = "X"}
    IN Cardinality(Props) = 1 =>
         \A e \in Props :
           /\ elems[e].return_type = "Integer"
           /\ Len(elems[e].arguments) = 1
           /\ elems[e].arguments[1].type = "String"

\* C10: inside a Type block, a member line name[(dims)] As Type appends one
\* field child of that name to the STRUCT Element and leaves the Type scanner
\* active, so the members are the children in source order.
C10_TypeMembers ==
  LET member == [l \in {"  x As Integer\n", "  y(3) As String\n"} |->
                   IF l = "  x As Integer\n" THEN "x" ELSE "y"]
  IN (pc = "for" /\ s \in DOMAIN member) =>
       /\ inTypeSearch
       /\ elems[target_elem].elem_type = "STRUCT"
       /\ elems[target_elem].childs # <<>>
       /\ elems[LastChild(elems, target_elem)].name = member[s]

-----------------------------------------------------------------------------
(* Properties of the parser's methods called directly, checked under        *)
(* SpecCall.                                                                *)

\* C5: on a declaration [access] [Const] name[(dims)] [As Type] [= literal]
\* _found_member returns True and appends exactly one child: CONST iff Const is
\* there, else VAR; the declared name; the declared type or Variant, with []
\* iff there is an array suffix; the literal's text as value, a quoted literal
\* without its quotes and with "" read as "; is_str iff the literal is quoted.
\* On a line that is no declaration it returns False and appends nothing.
C5_FoundMember ==
  (pc = "called" /\ call.op = "_found_member") =>
    IF call.decl = <<>> THEN ~ret.found /\ elems = Fresh
    ELSE LET d == call.decl[1]
             type == CASE d.type = "" -> "Variant"
                       [] d.type = " As Integer" -> "Integer"
                       [] d.type = " As String" -> "String"
             value == CASE d.lit = "" -> ""
                        [] d.lit = " = 5" -> "5"
                        [] d.lit = " = &HFF" -> "&HFF"
                        [] d.lit = " = \"a\"\"b\"" -> "a\"b"
         IN /\ ret.found
            /\ Len(elems) = 2
            /\ elems[1].childs = <<2>>
            /\ elems[2].parent = 1
            /\ elems[2].elem_type = (IF d.const # "" THEN "CONST" ELSE "VAR")
            /\ elems[2].name = d.name
            /\ elems[2].return_type = type \o (IF d.dims # "" THEN "[]" ELSE "")
            /\ elems[2].value = value
            /\ elems[2].is_str = (d.lit = " = \"a\"\"b\"")

\* C6: on a field or constant declaration Public and Global give PUBLIC,
\* Friend gives INTERNAL, Private gives PRIVATE, Static gives PUBLIC with
\* is_static true, a bare Dim and a bare Const give PRIVATE, and is_static is
\* false for every keyword but Static.
C6_AccessKeyword ==
  (/\ pc = "called" /\ call.op = "_found_member" /\ call.decl # <<>>
   /\ (call.decl[1].access # "" \/ call.decl[1].const # "")) =>
    LET d == call.decl[1]
        access == CASE d.access \in {"Public ", "Global ", "Static "} -> "PUBLIC"
                    [] d.access = "Friend " -> "INTERNAL"
                    [] d.access = "Private " -> "PRIVATE"
                    [] d.access \in {"Dim ", ""} -> "PRIVATE"
    IN /\ ret.found
       /\ Len(elems) = 2
       /\ elems[2].accessibility = access
       /\ elems[2].is_static = (d.access = "Static ")

\* C7: on an opener [access] Function name(args) [As Type[()]], with or without
\* a trailing comment, _find_function returns True, appends exactly one FUNC
\* child with the declared name, the accessibility (PUBLIC without keyword),
\* the return type (Variant when omitted, [] after it when () follows) and one
\* Argument per declared argument, and returns the new Element as the scope;
\* _find_sub does the same on a Sub opener with return type void; on any other
\* line they return False with the scope unchanged and append nothing.  Public
\* Function Add(ByVal a As Integer, ByVal b As Integer) As Integer gives two
\* by-value Integer arguments that are not optional.
C7_FindFunction ==
  (pc = "called" /\ call.op \in {"_find_function", "_find_sub"}) =>
    IF call.decl = <<>> THEN ~ret.found /\ elems = Fresh /\ target_elem = 1
    ELSE LET d == call.decl[1]
             access == CASE d.access \in {"", "Public ", "Static "} -> "PUBLIC"
                         [] d.access = "Friend " -> "INTERNAL"
                         [] d.access = "Private " -> "PRIVATE"
             type == CASE call.op = "_find_sub" -> "void"
                       [] d.ret = "" -> "Variant"
                       [] d.ret = " As Integer" -> "Integer"
                       [] d.ret = " As Integer()" -> "Integer[]"
         IN /\ ret.found
            /\ Len(elems) = 2
            /\ elems[1].childs = <<2>>
            /\ target_elem = 2
            /\ elems[2].elem_type = "FUNC"
            /\ elems[2].name = d.name
            /\ elems[2].accessibility = access
            /\ elems[2].return_type = type
            /\ Len(elems[2].arguments) = Len(d.args)
            /\ \A k \in 1..Len(d.args) :
                 /\ elems[2].arguments[k].name = d.args[k].name
                 /\ elems[2].arguments[k].type = "Integer"
                 /\ elems[2].arguments[k].is_reference = FALSE
                 /\ elems[2].arguments[k].is_optional = (d.args[k].opt # "")

\* C8 as the specification states it, on the lists of declarations: for every
\* argument-list string that is not empty, _build_args_list returns as many
\* Arguments as the string has commas, plus one.
C8_CommasPlusOne ==
  (pc = "called" /\ call.op = "_build_args_list" /\ call.decl # <<>>) =>
    Len(ret.args) = Cardinality({i \in 1..Len(call.line) : Ch(call.line, i) = ","}) + 1

\* C8: for every list of declarations [Optional] [ByVal] name [As Type]
\* [= default] separated by commas, _build_args_list returns one Argument per
\* declaration, in order: as many as the commas outside string literals, plus
\* one.
C8_OnePerDeclaration ==
  (pc = "called" /\ call.op = "_build_args_list" /\ call.decl # <<>>) =>
    LET l == call.line
        Quotes(i) == Cardinality({j \in 1..i : Ch(l, j) = "\""})
        Separators == {i \in 1..Len(l) : Ch(l, i) = "," /\ Quotes(i) % 2 = 0}
    IN /\ Len(call.decl) = Cardinality(Separators) + 1
       /\ Len(ret.args) = Cardinality(Separators) + 1
       /\ \A k \in 1..Len(ret.args) : ret.args[k].name = call.decl[k].name

\* _build_args_list has returned two Arguments for two declarations, the first
\* with a string default that holds a comma
C8_Witness ==
  /\ pc = "called" /\ call.op = "_build_args_list"
  /\ Len(call.decl) = 2
  /\ call.decl[1].default = " = \"x,y\""
  /\ Len(ret.args) = 2
  /\ ret.args[1].default_value = "x,y"

-----------------------------------------------------------------------------
(* Properties of the generator's methods called directly, checked under     *)
(* SpecGen.                                                                 *)

\* C9: rendering a PROPERTY Element appends one line whose accessor clause
\* follows from the Element's shape alone: a return type other than void, ""
\* and None with no argument gives get; no such return type with an argument
\* gives set; both give get; set; and neither raises CannotGenerateException
\* and appends no line.
C9_AccessorClause ==
  (pc = "called" /\ call.op \in {"_generate_property", "_generate_common"}) =>
    LET t == elems[target_elem]
        is_get == t.return_type \notin {"void", "", None}
        is_set == Len(t.arguments) >= 1
        Contains(l, pat) ==
          \E k \in 1..(Len(l) - Len(pat) + 1) : SubSeq(l, k, k + Len(pat) - 1) = pat
        Emitted(clause) ==
          /\ exc = ""
          /\ Len(out) = Len(call.lines) + 1
          /\ SubSeq(out, 1, Len(call.lines)) = call.lines
          /\ Contains(out[Len(out)], "{ " \o clause \o " }")
    IN CASE is_get /\ ~is_set -> Emitted("get;")
         [] ~is_get /\ is_set -> Emitted("set;")
         [] is_get /\ is_set -> Emitted("get; set;")
         [] OTHER -> exc = "CannotGenerateException" /\ out = call.lines

\* a PROPERTY Element with a return type and an argument has been rendered
\* through _generate_common as one line with get; set;
C9_Witness ==
  /\ pc = "called" /\ call.op = "_generate_common"
  /\ elems[target_elem].return_type = "Integer"
  /\ Len(elems[target_elem].arguments) = 1
  /\ exc = ""
  /\ out = <<"public Integer X { get; set; })">>


-----------------------------------------------------------------------------
(* Properties of the enum scanner and the enum renderer, checked under      *)
(* SpecCall.                                                                *)

\* C11: inside an Enum block, every member line `name` or `name = value`
\* (decimal, negative or &H hexadecimal value) appends one CONST child to the
\* ENUM Element, with value "" when none is written and the value text
\* otherwise, and the generator emits `name,` or `name = value,` for it.
C11_EnumMembers ==
  (pc = "rendered" /\ call.decl # <<>>) =>
    LET d == call.decl[1]
    IN /\ Len(elems[2].childs) = 1
       /\ elems[elems[2].childs[1]].elem_type = "CONST"
       /\ elems[elems[2].childs[1]].name = d.name
       /\ elems[elems[2].childs[1]].value = d.value
       /\ out = <<"public enum E", "{",
                  _INDENT_STR \o d.name
                    \o (IF d.value = "" THEN "" ELSE " = " \o d.value) \o ",",
                  "}">>


\* the escape the specification gives a code point: a backslash and a letter
\* for backslash, double quote, NUL, bell, backspace, form feed, newline,
\* carriage return, tab and vertical tab, the code point itself otherwise
BackslashEscape(c) ==
  CASE c = 92 -> <<92, 92>> [] c = 34 -> <<92, 34>> [] c = 0 -> <<92, 48>>
    [] c = 7 -> <<92, 97>> [] c = 8 -> <<92, 98>> [] c = 12 -> <<92, 102>>
    [] c = 10 -> <<92, 110>> [] c = 13 -> <<92, 114>> [] c = 9 -> <<92, 116>>
    [] c = 11 -> <<92, 118>> [] OTHER -> <<c>>

RECURSIVE Quoted(_)
Quoted(cs) == IF cs = <<>> THEN <<>> ELSE BackslashEscape(Head(cs)) \o Quoted(Tail(cs))

\* the initializer the specification gives a value
Initializer(cs, is_str) == IF is_str THEN <<34>> \o Quoted(cs) \o <<34>> ELSE cs

\* C12: rendering a CONST Element appends the line
\* `<access>const <type> <name> = <value>;`, always with an initializer; the
\* value of a string literal is wrapped in double quotes with each of the ten
\* characters of the escape table replaced by its backslash escape and every
\* other character unchanged, any other value is emitted verbatim.
C12_ConstLine ==
  /\ (pc = "called" /\ call.op = "_generate_const") =>
       LET e == elems[target_elem]
           n == Len(call.lines)
           access == CASE e.accessibility = "PUBLIC" -> "public "
                       [] e.accessibility = "PRIVATE" -> "private "
                       [] OTHER -> ""
           head == _get_indent_str(call.indent) \o access \o "const " \o e.return_type
                     \o " " \o e.name \o " = "
           line == out[n + 1]
       IN /\ exc = ""
          /\ Len(out) > n /\ SubSeq(out, 1, n) = call.lines
          /\ StartsWith(line, head) /\ EndsWith(line, ";")
          /\ Ords(Slice(line, Len(head) + 1, Len(line)))
               = Initializer(Ords(e.value), e.is_str)
  /\ (pc = "called" /\ call.op = "_get_value_str") =>
       ret.ords = Initializer(call.ords, call.is_str)

\* the private String constant Greeting with the value `Hi "there"` has been
\* rendered
C12_Witness ==
  /\ pc = "called" /\ call.op = "_generate_const" /\ call.indent = 0 /\ call.lines = <<>>
  /\ elems[1].value = "Hi \"there\"" /\ elems[1].is_str
  /\ elems[1].accessibility = "PRIVATE" /\ elems[1].return_type = "String"
  /\ out[1] = "private const String Greeting = \"Hi \\\"there\\\"\";"


\* the text of one argument: the by-reference keyword when the argument is by
\* reference, the type, the name and, when asked for, the default of an
\* optional argument
ArgumentText(a, with_default) ==
  (IF a.is_reference THEN "ref " ELSE "") \o a.type \o " " \o a.name
    \o (IF with_default /\ a.is_optional THEN " = " \o a.default_value ELSE "")

\* the lines of a FUNC Element: the signature, then `{` and `}` outside an
\* interface and `;` on the signature inside one, then the indentation alone
FuncLines(e, indent, as_intf, with_default) ==
  LET ind == _get_indent_str(indent)
      access == IF e.accessibility = "PUBLIC" THEN "public " ELSE "private "
      static == IF e.is_static THEN "static " ELSE ""
      args == Join([k \in 1..Len(e.arguments) |->
                      ArgumentText(e.arguments[k], with_default)], ", ")
      signature == ind \o access \o static \o e.return_type \o " " \o e.name
                     \o "(" \o args \o ")"
  IN IF as_intf THEN <<signature \o ";", ind>>
     ELSE <<signature, ind \o "{", ind \o "}", ind>>

\* C13 as the specification states it: a FUNC Element is rendered as its
\* signature line and an empty body block, or as its signature line ended by
\* `;` inside an interface, every argument as `<ref-keyword><type> <name>`.
C13_FuncLinesNoDefault ==
  (pc = "called" /\ call.op = "_generate_func") =>
    /\ exc = ""
    /\ out = call.lines \o FuncLines(elems[target_elem], call.indent, call.as_intf, FALSE)

\* C13: a FUNC Element is rendered as its signature line and an empty body
\* block, or as its signature line ended by `;` inside an interface, then a
\* line of indentation; the arguments are in order, joined by `, `, each as
\* `<ref-keyword><type> <name>`, an optional one followed by ` = <default>`.
C13_FuncLines ==
  (pc = "called" /\ call.op = "_generate_func") =>
    /\ exc = ""
    /\ out = call.lines \o FuncLines(elems[target_elem], call.indent, call.as_intf, TRUE)

\* a function of two arguments, the first by reference and the second
\* optional, has been rendered inside an interface
C13_Witness ==
  /\ pc = "called" /\ call.op = "_generate_func" /\ call.as_intf
  /\ call.indent = 1 /\ call.lines = <<>>
  /\ Len(elems[1].arguments) = 2
  /\ elems[1].arguments[1].is_reference /\ ~elems[1].arguments[1].is_optional
  /\ elems[1].arguments[2].is_optional /\ ~elems[1].arguments[2].is_reference
  /\ elems[1].accessibility = "PUBLIC" /\ ~elems[1].is_static
  /\ elems[1].return_type = "Integer"
  /\ out = <<"    public Integer Add(ref TestClass a, TestClass b = 1);", "    ">>


-----------------------------------------------------------------------------
(* Properties of the child collections, checked under SpecList.             *)

\* C14: after any sequence of append, insert, item assignment, deletion at
\* an index and clear on the child collections of any Elements, every member
\* c of e.childs has c.parent = e, every Element whose parent is p is a
\* member of p.childs, and an Element the last operation removed or replaced
\* (and that no collection holds) has the parent None.
C14_OneOwningParent ==
  /\ \A e \in 1..NumElems : \A c \in Members(elems, e) : elems[c].parent = e
  /\ \A c \in 1..NumElems :
       elems[c].parent # 0 => c \in Members(elems, elems[c].parent)
  /\ (pc = "called" /\ exc = "") =>
       \A c \in ret.removed :
         (\A e \in 1..NumElems : c \notin Members(elems, e)) => elems[c].parent = 0


\* C15: generate raises, and returns no line, whenever the tree holds a
\* multi-line doc comment Element or an Element of a kind that has no
\* renderer; it never skips such an Element and returns lines.
C15_GenerateFails ==
  (/\ pc = "called" /\ call.op = "generate"
   /\ \E i \in 1..Len(elems) : elems[i].elem_type \in {"DOC_COMMENT_MULTI", "OTHER"}) =>
    (exc # "" /\ out = <<>>)


-----------------------------------------------------------------------------
(* Properties of the scan loop, checked under SpecScan.                     *)

\* the text of a line after the two-character marker that follows its leading
\* whitespace, up to the end of the line
AfterMarker(line) ==
  LET first == Min({i \in 1..Len(line) : Ch(line, i) \notin SpaceChars})
      last == IF EndsWith(line, "\n") THEN Len(line) - 1 ELSE Len(line)
  IN SubSeq(line, first + 2, last)

\* the text between the first two double quotes of a line
InQuotes(line) ==
  LET quotes == {i \in 1..Len(line) : Ch(line, i) = "\""}
      first == Min(quotes)
      second == Min(quotes \ {first})
  IN SubSeq(line, first + 1, second - 1)

StartsGlobalDoc(line) == StartsWith(Strip(line), "'!")
StartsVbName(line) == StartsWith(line, "Attribute VB_Name = \"")

\* C16: once parse has read the header, the tree is root (OTHER, `root`) with
\* a NAME_SPACE child `Class`, `Form` or `Standard`, the last preceded by an
\* OTHER child `using` that lists `Class`; the children of the namespace are
\* the `'!` comments in source order and then exactly one type Element, named
\* by the first `Attribute VB_Name = "..."` line or `DummyName`, of kind
\* INTERFACE iff the module is a class or form and a line is `'# Interface`,
\* and CLASS otherwise.
C16_Skeleton ==
  pc # "start" =>
    LET ns == IF module_type = "STANDARD" THEN 3 ELSE 2
        docs == SelectSeq(code_lines, StartsGlobalDoc)
        names == SelectSeq(code_lines, StartsVbName)
        tagged == \E k \in 1..Len(code_lines) : Strip(code_lines[k]) = "'# Interface"
        n == Len(docs)
    IN /\ elems[1].name = "root" /\ elems[1].elem_type = "OTHER" /\ elems[1].parent = 0
       /\ elems[ns].elem_type = "NAME_SPACE" /\ elems[ns].parent = 1
       /\ elems[ns].name = CASE module_type = "STANDARD" -> "Standard"
                             [] module_type = "FORM" -> "Form"
                             [] module_type = "CLASS" -> "Class"
       /\ module_type = "STANDARD" =>
            /\ elems[1].childs = <<2, 3>>
            /\ elems[2].name = "using" /\ elems[2].elem_type = "OTHER"
            /\ elems[2].others = {<<"using", <<"Class">>>>}
       /\ module_type # "STANDARD" => elems[1].childs = <<2>>
       /\ Len(elems[ns].childs) = n + 1
       /\ \A k \in 1..n :
            /\ elems[elems[ns].childs[k]].elem_type = "DOC_COMMENT_LINE"
            /\ elems[elems[ns].childs[k]].value = AfterMarker(docs[k])
       /\ elems[elems[ns].childs[n + 1]].elem_type
            = IF module_type # "STANDARD" /\ tagged THEN "INTERFACE" ELSE "CLASS"
       /\ elems[elems[ns].childs[n + 1]].name
            = IF names = <<>> THEN "DummyName" ELSE InQuotes(names[1])

\* a class module with the tag line and a name line has been parsed: the
\* type Element is an INTERFACE with that name
C16_Witness ==
  /\ pc = "parsed" /\ module_type = "CLASS"
  /\ code_lines = <<"'# Interface\n", "Attribute VB_Name = \"Bar\" ' renamed\n">>
  /\ elems[3].name = "Bar" /\ elems[3].elem_type = "INTERFACE"
  /\ elems[2].childs = <<3>>

\* C17: at every point of the scan loop, for every file and module kind, at
\* most one of the five block-scanner flags is true.
C17_OneScanner ==
  Cardinality({i \in 1..5 : flags[i]}) <= 1

\* the Sub scanner is active, its indented closing line was not taken for
\* one, and the opener of an Enum has been read as a line of the Sub
C17_Witness ==
  /\ pc = "for" /\ s = "Public Enum G\n" /\ ln_i > Len(code_lines)
  /\ inSubSearch /\ ~inEnumSearch /\ ~inTypeSearch /\ ~inFunctionSearch
  /\ ~inPropertySearch

\* the closing lines of the scanner at pc
ClosingLinesAt(p) ==
  CASE p = "process_type" -> Closings("Type")
    [] p = "process_sub" -> Closings("Sub")
    [] p = "process_function" -> Closings("Function")
    [] p = "process_enum" -> Closings("Enum")
    [] p = "process_property" -> Closings("Property")
    [] OTHER -> {}

\* C18: whenever a block scanner is active and the logical line is the
\* closing line of its block (`End Type`, `End Sub`, `End Function`,
\* `End Enum`, `End Property`, indented or not, with or without a trailing
\* comment), after that line no scanner flag is true and the scope is the
\* parent of the Element that was the scope.
C18_ClosingLine ==
  [][(s \in ClosingLinesAt(pc)) =>
       (/\ ~inTypeSearch' /\ ~inSubSearch' /\ ~inFunctionSearch'
        /\ ~inEnumSearch' /\ ~inPropertySearch'
        /\ target_elem' = elems[target_elem].parent)]_vars

\* C19: in every module kind, a file that is one Function, Sub or Property
\* procedure, whose only declaration lines are between the opener and the
\* closing line, has no VAR and no CONST Element anywhere in its tree.
C19_NoLocalMember ==
  code_lines \in BlockFiles(Procedures) =>
    \A e \in 1..Len(elems) : elems[e].elem_type \notin {"VAR", "CONST"}

\* C20: the first step on every logical line is the documentation-comment
\* check, whichever scanner is active; a line that is `'*` after optional
\* whitespace appends exactly one DOC_COMMENT_LINE child, with the text after
\* the marker, to the scope, changes no other Element, and leaves the scope,
\* the scanner flags and the last-property tracker as they were.
C20_DocComment ==
  [][((pc = "for" /\ pc' \notin {"for", "parsed"}) => pc' = "doxy") /\
     ((pc = "doxy" /\ StartsWith(Strip(s), "'*")) =>
          /\ pc' = "for"
          /\ Len(elems') = Len(elems) + 1
          /\ elems'[Len(elems')].elem_type = "DOC_COMMENT_LINE"
          /\ elems'[Len(elems')].value = AfterMarker(s)
          /\ elems'[Len(elems')].parent = target_elem
          /\ elems'[target_elem].childs = Append(elems[target_elem].childs, Len(elems'))
          /\ \A e \in 1..Len(elems) :
               e # target_elem => elems'[e] = elems[e]
          /\ UNCHANGED <<target_elem, lastProperty, flags>>)]_vars

\* inside a Function block a documentation comment has been read: it is the
\* last child of the FUNC Element, which is still the scope
C20_Witness ==
  /\ pc = "for" /\ s = "  '* doc\n" /\ inFunctionSearch
  /\ elems[target_elem].elem_type = "FUNC"
  /\ elems[LastChild(elems, target_elem)].elem_type = "DOC_COMMENT_LINE"
  /\ elems[LastChild(elems, target_elem)].value = " doc"


\* the finders of the loop body, in the order _parse_cls calls them
FinderOrder == <<"find_property_get", "find_property_set", "find_type", "found_member",
                 "find_function", "find_sub", "find_enum">>

\* the scanner flag (its place in flags) that the finder at place k sets
FinderFlag(k) == <<5, 5, 1, 0, 3, 2, 4>>[k]

NoScanner == \A i \in 1..5 : ~flags[i]

\* one step of the loop when no scanner is active, as C21 describes it
C21_Step ==
  /\ (pc = "doxy" /\ NoScanner /\ pc' # "for") => pc' = FinderOrder[1]
  /\ \A k \in 1..7 :
       pc = FinderOrder[k] =>
         \/ pc' = "parse_raised"
         \/ /\ pc' = IF k < 7 THEN FinderOrder[k + 1] ELSE "for"
            /\ UNCHANGED <<elems, target_elem, flags>>
         \/ /\ k # 4
            /\ pc' = "for"
            /\ flags' = [flags EXCEPT ![FinderFlag(k)] = TRUE]
            /\ target_elem' # target_elem
            /\ elems'[target_elem'].parent = target_elem
         \/ /\ k = 4
            /\ pc' = "for"
            /\ Len(elems') > Len(elems)
            /\ \A e \in (Len(elems) + 1)..Len(elems') : elems'[e].parent = target_elem
            /\ UNCHANGED <<target_elem, flags>>

\* C21: in every module kind, a logical line read while no block scanner is
\* active is tested against property-get, property-set, record-type,
\* plain-member, function, subroutine and enum in that order; the first match
\* ends the tests; an opener sets exactly its own scanner flag and moves the
\* scope to the Element of the block, a plain member appends children and
\* leaves scope and flags unchanged.
C21_OpenerOrder == [][C21_Step]_vars


-----------------------------------------------------------------------------
(* Properties of line continuation, checked under SpecJoin.                 *)

\* the index of the first physical line of the logical line that ends at
\* line i: the line after the last one before i that has no marker
GroupStart(lines, i) ==
  Max({1} \cup {k + 1 : k \in {j \in 1..(i - 1) : ~EndsWith(lines[j], " _\n")}})

\* the physical lines a..b as one line: every line but the last without its
\* marker and line break
RECURSIVE JoinedLine(_, _, _)
JoinedLine(lines, a, b) ==
  IF a = b THEN lines[b]
  ELSE SubSeq(lines[a], 1, Len(lines[a]) - 2) \o JoinedLine(lines, a + 1, b)

-----------------------------------------------------------------------------
(* Properties of the stored default and the passing mode of an Argument,    *)
(* checked under SpecCall.                                                  *)

\* what is to be stored for the default a declaration is written with
StoredDefault(default) ==
  CASE default = "" -> [value |-> "default", is_str |-> FALSE]
    [] default = " = \"\"" -> [value |-> "", is_str |-> TRUE]
    [] default = " = \"a\"\"b\"" -> [value |-> "a\"b", is_str |-> TRUE]
    [] default = " = \"default\"" -> [value |-> "default", is_str |-> TRUE]
    [] default = " = \"x,y\"" -> [value |-> "x,y", is_str |-> TRUE]
    [] default = " = 1" -> [value |-> "1", is_str |-> FALSE]
    [] default = " = &HFF" -> [value |-> "&HFF", is_str |-> FALSE]

\* C23: for every Argument _build_args_list returns, default_value is the
\* default the declaration is written with (a string literal without its
\* quotes and with doubled quotes undone, is_str true), also for the empty
\* string literal, and is `default` with is_str false when the declaration
\* has none; and is_reference is false exactly when the declaration has the
\* keyword ByVal.
C23_StoredDefault ==
  (pc = "called" /\ call.op = "_build_args_list" /\ call.decl # <<>>) =>
    /\ Len(ret.args) = Len(call.decl)
    /\ \A k \in 1..Len(call.decl) :
         /\ ret.args[k].default_value = StoredDefault(call.decl[k].default).value
         /\ ret.args[k].is_str = StoredDefault(call.decl[k].default).is_str
         /\ ret.args[k].is_reference = (call.decl[k].ref \notin {"ByVal ", "byval "})

\* an optional ByVal declaration with the default `""` has given an Argument
\* whose default is the empty string, a string literal, not by reference
C23_Witness ==
  /\ pc = "called" /\ call.op = "_build_args_list"
  /\ call.line = "Optional ByVal a As String = \"\""
  /\ Len(ret.args) = 1
  /\ ret.args[1].default_value = "" /\ ret.args[1].is_str
  /\ ~ret.args[1].is_reference


-----------------------------------------------------------------------------
(* Properties of generate on a tree, checked under SpecGen.                 *)

\* the Elements above e, nearest first
RECURSIVE Ancestors(_, _)
Ancestors(es, e) ==
  IF es[e].parent = 0 THEN <<>> ELSE <<es[e].parent>> \o Ancestors(es, es[e].parent)

\* the kinds of the Elements above e
AncestorKinds(es, e) ==
  {es[Ancestors(es, e)[k]].elem_type : k \in 1..Len(Ancestors(es, e))}

\* the signature of a FUNC Element of the trees: public, not static, no argument
Signature(e) == "public " \o e.return_type \o " " \o e.name \o "()"

\* lines holds the signature of e closed by `;` / followed by a body
DeclarationOnly(lines, e) ==
  \E k \in 1..Len(lines) : EndsWith(lines[k], Signature(e) \o ";")
WithBody(lines, e) ==
  \E k \in 1..(Len(lines) - 2) :
    /\ EndsWith(lines[k], Signature(e))
    /\ EndsWith(lines[k + 1], "{")
    /\ EndsWith(lines[k + 2], "}")

\* C24: the containers hand the interface context down to their children:
\* in the lines generate returns, every FUNC Element below namespaces,
\* classes and interfaces only is declaration-only (signature and `;`, no
\* body) when one of the Elements above it, at any depth, is an INTERFACE,
\* and has a body when none is.
C24_InterfaceContext ==
  (pc = "called" /\ call.op = "generate" /\ exc = "") =>
    \A i \in 1..Len(elems) :
      (/\ elems[i].elem_type = "FUNC"
       /\ AncestorKinds(elems, i) \subseteq {"NAME_SPACE", "CLASS", "INTERFACE"}) =>
        IF "INTERFACE" \in AncestorKinds(elems, i)
        THEN DeclarationOnly(out, elems[i]) /\ ~WithBody(out, elems[i])
        ELSE WithBody(out, elems[i]) /\ ~DeclarationOnly(out, elems[i])


\* d copies of the indent unit
RECURSIVE Indent(_)
Indent(d) == IF d = 0 THEN "" ELSE _INDENT_STR \o Indent(d - 1)

\* the kinds rendered as a header line and a block in braces
ContainerKinds == {"NAME_SPACE", "CLASS", "INTERFACE", "STRUCT", "ENUM"}

\* the header of a public, non-static container Element
Header(e) ==
  CASE e.elem_type = "NAME_SPACE" -> "namespace " \o e.name
    [] e.elem_type = "CLASS" -> "public class " \o e.name
    [] e.elem_type = "INTERFACE" -> "public interface " \o e.name
    [] e.elem_type = "STRUCT" -> "public struct " \o e.name
    [] e.elem_type = "ENUM" -> "public enum " \o e.name

\* C25: in the lines generate returns, the header line of every container
\* Element at depth d (below namespaces, classes and interfaces only) and
\* the lines of its opening and closing brace start with exactly d copies
\* of the four-space indent unit.
C25_Indentation ==
  (pc = "called" /\ call.op = "generate" /\ exc = "") =>
    \A i \in 1..Len(elems) :
      (/\ elems[i].elem_type \in ContainerKinds
       /\ AncestorKinds(elems, i) \subseteq {"NAME_SPACE", "CLASS", "INTERFACE"}) =>
        LET d == Len(Ancestors(elems, i))
        IN /\ \E k \in 1..(Len(out) - 1) :
                /\ out[k] = Indent(d) \o Header(elems[i])
                /\ out[k + 1] = Indent(d) \o "{"
           /\ \E k \in 1..Len(out) : out[k] = Indent(d) \o "}"


\* the names, separated by `, `
RECURSIVE CommaList(_)
CommaList(names) ==
  IF names = <<>> THEN ""
  ELSE IF Len(names) = 1 THEN names[1]
  ELSE names[1] \o ", " \o CommaList(Tail(names))

\* the list others holds under one of the keys, empty when it has none
ListUnder(others, keys) ==
  IF \E kv \in others : kv[1] \in keys
  THEN (CHOOSE kv \in others : kv[1] \in keys)[2]
  ELSE <<>>

\* C26: the header line of a class or interface Element ends with the
\* clause ` : <names>`, the names being the super types (the list others
\* holds under `extends` or else under `super`) followed by the implemented
\* interfaces (under `implements`), separated by commas; there is no clause
\* when others holds neither list; and the rendering does not raise,
\* whichever of the lists are there.
C26_InheritanceClause ==
  (pc = "called" /\ call.op \in {"_generate_class", "_generate_intf"}) =>
    LET e == elems[1]
        supers == IF \E kv \in e.others : kv[1] = "extends"
                  THEN ListUnder(e.others, {"extends"})
                  ELSE ListUnder(e.others, {"super"})
        names == supers \o ListUnder(e.others, {"implements"})
        keyword == IF call.op = "_generate_class" THEN "class " ELSE "interface "
    IN /\ exc = ""
       /\ Len(out) > 0
       /\ out[1] = "public " \o keyword \o e.name
                     \o (IF names = <<>> THEN "" ELSE " : " \o CommaList(names))


\* C27: generate renders every Element of the tree: each single-line doc
\* comment Element, whatever Element it is a child of (a function too),
\* gives exactly one line `///<text>` in the lines generate returns.
C27_DocLines ==
  (pc = "called" /\ call.op = "generate" /\ exc = "") =>
    \A i \in 1..Len(elems) :
      elems[i].elem_type = "DOC_COMMENT_LINE" =>
        Cardinality({k \in 1..Len(out) : Strip(out[k]) = "///" \o elems[i].value}) = 1


\* C28: generate is a read-only traversal.  Whether the call returns lines or
\* raises, every Element of the tree has after the call the attributes, the
\* argument list, the child collection (members and order) and the parent
\* back-reference it had before, and the tree has the same Elements.
C28_Step ==
  (pc = "idle" /\ call.op = "generate")
    => (/\ Len(elems') = Len(elems)
        /\ \A i \in DOMAIN elems :
              /\ elems'[i].childs = elems[i].childs
              /\ elems'[i].parent = elems[i].parent
              /\ elems'[i].arguments = elems[i].arguments
              /\ elems'[i] = elems[i])

C28_WitnessReturned ==
  /\ pc = "called" /\ call.op = "generate"
  /\ exc = "" /\ out # <<>>
  /\ \E i \in DOMAIN elems : elems[i].childs # <<>>


-----------------------------------------------------------------------------
(* Properties of the tree and of the scope, checked under SpecScan         *)

\* the positions of the scan loop
LoopPositions ==
  {"for", "doxy", "process_type", "process_sub", "process_function",
   "process_property", "process_enum", "find_property_get", "find_property_set",
   "find_type", "found_member", "find_function", "find_sub", "find_enum"}

\* the Elements of kind CLASS or INTERFACE under a namespace
PrimaryTypes ==
  {e \in DOMAIN elems : /\ elems[e].elem_type \in {"CLASS", "INTERFACE"}
                        /\ elems[e].parent # 0
                        /\ elems[elems[e].parent].elem_type = "NAME_SPACE"}

\* the kind of Element the active scanner works in
ScannerKind ==
  IF inTypeSearch THEN "STRUCT"
  ELSE IF inEnumSearch THEN "ENUM"
  ELSE IF inPropertySearch THEN "PROPERTY"
  ELSE "FUNC"

InChilds(es, parent, e) == \E k \in DOMAIN es[parent].childs : es[parent].childs[k] = e

\* C29: in the scan loop the scope pointer is an Element, and neither the root
\* nor a namespace.  With no scanner active it is the primary type Element;
\* with a scanner active it is a direct child of the primary type Element and
\* its kind is the scanner's (STRUCT, ENUM, FUNC or PROPERTY), also when it is
\* a property Element that a second accessor reuses.
C29_ScopePointer ==
  (pc \in LoopPositions) =>
    /\ target_elem \in DOMAIN elems
    /\ target_elem # 1
    /\ elems[target_elem].elem_type # "NAME_SPACE"
    /\ Cardinality(PrimaryTypes) = 1
    /\ NoScanner => target_elem \in PrimaryTypes
    /\ ~NoScanner =>
         /\ elems[target_elem].parent \in PrimaryTypes
         /\ InChilds(elems, elems[target_elem].parent, target_elem)
         /\ elems[target_elem].elem_type = ScannerKind

\* the setter of P is read after the block of its getter: the scope is the
\* Element the getter made, and it is the only property of the class
C29_Witness ==
  /\ pc = "for" /\ inPropertySearch
  /\ s = "Property Let P(ByVal v As Long)\n"
  /\ code_lines[1] = "Property Get P() As Long\n"
  /\ target_elem = lastProperty
  /\ elems[target_elem].arguments # <<>>
  /\ elems[target_elem].return_type = "Long"
  /\ Cardinality({e \in DOMAIN elems : elems[e].elem_type = "PROPERTY"}) = 1


\* the places <<owner, position>> of Element e in the child collections
Places(es, e) ==
  {pk \in UNION {{<<p, k>> : k \in DOMAIN es[p].childs} : p \in DOMAIN es} :
     es[pk[1]].childs[pk[2]] = e}

\* the name a physical line of the files of SpecScan opens a block with
OpenerName(ln) ==
  IF StartsWith(ln, "Public Sub S(") THEN <<"S">>
  ELSE IF StartsWith(ln, "Function F(") THEN <<"F">>
  ELSE IF StartsWith(ln, "Property Get P(") \/ StartsWith(ln, "Property Let P(")
       THEN <<"P">>
  ELSE IF StartsWith(ln, "Private Type T") THEN <<"T">>
  ELSE IF StartsWith(ln, "Public Enum E") THEN <<"E">>
  ELSE IF StartsWith(ln, "Public Enum G") THEN <<"G">>
  ELSE <<>>

RECURSIVE OpenerNames(_, _)
OpenerNames(lines, i) ==
  IF i > Len(lines) THEN <<>> ELSE OpenerName(lines[i]) \o OpenerNames(lines, i + 1)

\* a is b with some of its members left out
RECURSIVE IsSubseq(_, _)
IsSubseq(a, b) ==
  IF a = <<>> THEN TRUE
  ELSE IF b = <<>> THEN FALSE
  ELSE IF Head(a) = Head(b) THEN IsSubseq(Tail(a), Tail(b))
  ELSE IsSubseq(a, Tail(b))

\* the names of the blocks among the children of Element e, in their order
RECURSIVE BlockNames(_, _, _)
BlockNames(es, e, k) ==
  IF k > Len(es[e].childs) THEN <<>>
  ELSE Let(es[es[e].childs[k]], LAMBDA c :
         (IF c.elem_type \in {"STRUCT", "ENUM", "FUNC", "PROPERTY"}
          THEN <<c.name>> ELSE <<>>) \o BlockNames(es, e, k + 1))

\* C30: what parse returns is a tree.  The root has no parent and is in no
\* child collection; every other Element is in exactly one child collection,
\* once, and its parent is the owner of that collection, an Element made
\* before it.  A property that a second accessor reuses is not appended again.
\* Children are in the order in which they were made, and the blocks of the
\* primary type Element are in the order of their opening lines in the file.
C30_Tree ==
  (pc = "parsed") =>
    /\ elems[1].parent = 0
    /\ Places(elems, 1) = {}
    /\ \A e \in DOMAIN elems \ {1} :
          /\ Cardinality(Places(elems, e)) = 1
          /\ \A pk \in Places(elems, e) : elems[e].parent = pk[1] /\ pk[1] < e
    /\ \A p \in DOMAIN elems : \A j, k \in DOMAIN elems[p].childs :
          j < k => elems[p].childs[j] < elems[p].childs[k]
    /\ (code_lines \in BlockFiles(Blocks)) =>
          \A p \in PrimaryTypes :
             IsSubseq(BlockNames(elems, p, 1), OpenerNames(code_lines, 1))

\* a getter and a setter of P, parsed: one property Element, in one place,
\* with the setter's argument
C30_Witness ==
  /\ pc = "parsed" /\ IsCls
  /\ Len(code_lines) >= 4
  /\ code_lines[1] = "Property Get P() As Long\n"
  /\ code_lines[Len(code_lines)] = "End Property\n"
  /\ \E k \in DOMAIN code_lines : code_lines[k] = "Property Let P(ByVal v As Long)\n"
  /\ lastProperty # 0
  /\ elems[lastProperty].arguments # <<>>
  /\ Cardinality(Places(elems, lastProperty)) = 1
  /\ Cardinality({e \in DOMAIN elems : elems[e].elem_type = "PROPERTY"}) = 1

\* a function and an enumeration after it, parsed: two children in that order
C30_WitnessOrder ==
  /\ pc = "parsed"
  /\ \E p \in PrimaryTypes : BlockNames(elems, p, 1) = <<"F", "G">>

====
